---- MODULE Spec2Model ----
(***************************************************************************)
(* A model of the arXiv summarizer worker (rvpanchani/arxiv-summarizer):   *)
(* the input normalizer, the metadata fetcher, the affiliation classifier  *)
(* and the summary resolver of the worker, and the request handler that    *)
(* chains them.                                                            *)
(*                                                                         *)
(* Strings are sequences of one-character strings, so that trimming,       *)
(* prefix/suffix tests, splitting and the regular expressions of the       *)
(* source are computed on the characters.  JavaScript values that may be   *)
(* null, undefined or of any JSON type are tagged records (JsNull, JsStr,  *)
(* ...).                                                                   *)
(***************************************************************************)
EXTENDS Integers, Sequences, FiniteSets, TLC

(***************************************************************************)
(* Characters and strings                                                  *)
(***************************************************************************)
Min(S) == CHOOSE x \in S : \A y \in S : x <= y
Max(S) == CHOOSE x \in S : \A y \in S : x >= y

UpperChars == <<"A","B","C","D","E","F","G","H","I","J","K","L","M",
                "N","O","P","Q","R","S","T","U","V","W","X","Y","Z">>
LowerChars == <<"a","b","c","d","e","f","g","h","i","j","k","l","m",
                "n","o","p","q","r","s","t","u","v","w","x","y","z">>
DigitChars == {"0","1","2","3","4","5","6","7","8","9"}

IsUpper(c) == \E i \in DOMAIN UpperChars : UpperChars[i] = c
IsAlpha(c) == IsUpper(c) \/ \E i \in DOMAIN LowerChars : LowerChars[i] = c
IsDigit(c) == c \in DigitChars

\* One character of String.prototype.toLowerCase (ASCII).
LowerChar(c) ==
  IF IsUpper(c)
  THEN LowerChars[CHOOSE i \in DOMAIN UpperChars : UpperChars[i] = c]
  ELSE c

toLowerCase(s) == [i \in DOMAIN s |-> LowerChar(s[i])]

\* \s of the regular expressions and the characters String.prototype.trim strips.
IsWs(c) == c \in {" ", "\n", "\t"}

\* String.prototype.trim
trim(s) ==
  LET I == {i \in DOMAIN s : ~IsWs(s[i])}
  IN  IF I = {} THEN <<>> ELSE SubSeq(s, Min(I), Max(I))

startsWith(s, p) == Len(s) >= Len(p) /\ SubSeq(s, 1, Len(p)) = p
endsWith(s, p) == Len(s) >= Len(p) /\ SubSeq(s, Len(s) - Len(p) + 1, Len(s)) = p
\* RegExp.prototype.test for a literal pattern: p occurs somewhere in s.
includes(s, p) == \E i \in 0..(Len(s) - Len(p)) : SubSeq(s, i + 1, i + Len(p)) = p

\* First index >= 1 of a character of set C in s, or Len(s) + 1.
IndexOfAny(s, C) ==
  LET I == {i \in DOMAIN s : s[i] \in C}
  IN  IF I = {} THEN Len(s) + 1 ELSE Min(I)

\* String.prototype.split on a single character.
RECURSIVE split(_, _)
split(s, c) ==
  LET k == IndexOfAny(s, {c})
  IN  IF k > Len(s) THEN <<s>>
      ELSE <<SubSeq(s, 1, k - 1)>> \o split(SubSeq(s, k + 1, Len(s)), c)

\* Array.prototype.filter(Boolean) on an array of strings: drops the empty ones.
filterBoolean(parts) == SelectSeq(parts, LAMBDA p : p # <<>>)

\* Array.prototype.join
RECURSIVE join(_, _)
join(parts, sep) ==
  IF parts = <<>> THEN <<>>
  ELSE IF Len(parts) = 1 THEN parts[1]
  ELSE parts[1] \o sep \o join(Tail(parts), sep)

\* s.replace(/\s+/g, ' ').trim()
RECURSIVE collapseWs(_)
collapseWs(s) ==
  IF s = <<>> THEN <<>>
  ELSE IF IsWs(s[1])
       THEN LET k == IndexOfAny(s, {c \in {s[i] : i \in DOMAIN s} : ~IsWs(c)})
            IN  <<" ">> \o collapseWs(SubSeq(s, k, Len(s)))
       ELSE <<s[1]>> \o collapseWs(Tail(s))

collapseAndTrim(s) == trim(collapseWs(s))

DotPdf == <<".","p","d","f">>

\* s.replace(/\.pdf$/i, '')
stripPdfSuffix(s) ==
  IF endsWith(toLowerCase(s), DotPdf) THEN SubSeq(s, 1, Len(s) - Len(DotPdf)) ELSE s

(***************************************************************************)
(* Outcomes of a call: a returned value or a thrown error.                 *)
(***************************************************************************)
Return(v) == [kind |-> "return", value |-> v]
Throw(e) == [kind |-> "throw", value |-> e]

\* An Error object: name, the fixed part of its message, and the status and
\* body text interpolated into the message (0 and "" when the message has none).
MkError(name, text, status, body) ==
  [name |-> name, text |-> text, status |-> status, body |-> body]

(***************************************************************************)
(* new URL(input), without a base: the WHATWG URL parser on the characters *)
(* of the input.  Modelled: scheme detection, special and non-special      *)
(* schemes, the slashes after a special scheme, userinfo and port          *)
(* stripping, host lower-casing, forbidden host characters, dot-segment    *)
(* removal, percent-encoding of spaces in the path, query and fragment     *)
(* cut off the path.  Not modelled (outside the inputs drawn below): the   *)
(* file scheme, IPv4/IPv6 literals, percent-encoded hosts, IDNA, port      *)
(* range.                                                                  *)
(***************************************************************************)
UrlFailure == [ok |-> FALSE, protocol |-> <<>>, hostname |-> <<>>, pathname |-> <<>>]

SpecialSchemes ==
  { <<"h","t","t","p">>, <<"h","t","t","p","s">>, <<"f","t","p">>,
    <<"w","s">>, <<"w","s","s">> }

IsSchemeChar(c) == IsAlpha(c) \/ IsDigit(c) \/ c \in {"+", "-", "."}

ForbiddenHostChars ==
  {" ", "\n", "\t", "#", "%", "/", ":", "<", ">", "?", "@", "[", "\\", "]", "^", "|"}

\* The path state: each raw segment is dropped (single dot), pops the path
\* (double dot) or is appended; a dot segment in last position leaves an
\* empty last segment.
Dot == <<".">>
DotDot == <<".",".">>

RECURSIVE normSegs(_, _, _)
normSegs(raw, i, acc) ==
  IF i > Len(raw) THEN acc
  ELSE LET seg == raw[i]
           last == (i = Len(raw))
           popped == IF acc = <<>> THEN acc ELSE SubSeq(acc, 1, Len(acc) - 1)
       IN  IF seg = DotDot
           THEN normSegs(raw, i + 1, IF last THEN Append(popped, <<>>) ELSE popped)
           ELSE IF seg = Dot
           THEN normSegs(raw, i + 1, IF last THEN Append(acc, <<>>) ELSE acc)
           ELSE normSegs(raw, i + 1, Append(acc, seg))

\* Percent-encoding of the path: of the characters drawn here only the space
\* is in the path percent-encode set.
RECURSIVE pathEncode(_)
pathEncode(s) ==
  IF s = <<>> THEN <<>>
  ELSE (IF s[1] = " " THEN <<"%","2","0">> ELSE <<s[1]>>) \o pathEncode(Tail(s))

\* The pathname of a hierarchical path: raw begins with "/" or is empty.
\* special: an empty path becomes "/".
hierPathname(raw, special) ==
  IF raw = <<>> THEN (IF special THEN <<"/">> ELSE <<>>)
  ELSE LET segs == normSegs(split(SubSeq(raw, 2, Len(raw)), "/"), 1, <<>>)
       IN  <<"/">> \o pathEncode(join(segs, <<"/">>))

\* Authority and path of "rest", which starts right after the slashes that
\* introduce the authority.
parseAuthorityAndPath(scheme, rest, special) ==
  LET authEnd == IndexOfAny(rest, {"/", "?", "#"})
      authority == SubSeq(rest, 1, authEnd - 1)
      ats == {i \in DOMAIN authority : authority[i] = "@"}
      hostport == IF ats = {} THEN authority
                  ELSE SubSeq(authority, Max(ats) + 1, Len(authority))
      colon == IndexOfAny(hostport, {":"})
      hostRaw == SubSeq(hostport, 1, colon - 1)
      port == SubSeq(hostport, colon + 1, Len(hostport))
      tail == SubSeq(rest, authEnd, Len(rest))
      pathRaw == SubSeq(tail, 1, IndexOfAny(tail, {"?", "#"}) - 1)
  IN  IF \E i \in DOMAIN port : ~IsDigit(port[i]) THEN UrlFailure
      ELSE IF special /\ hostRaw = <<>> THEN UrlFailure
      ELSE IF \E i \in DOMAIN hostRaw : hostRaw[i] \in ForbiddenHostChars THEN UrlFailure
      ELSE [ok |-> TRUE,
            protocol |-> scheme,
            hostname |-> IF special THEN toLowerCase(hostRaw) ELSE hostRaw,
            pathname |-> hierPathname(pathRaw, special)]

RECURSIVE dropSlashes(_)
dropSlashes(s) == IF s # <<>> /\ s[1] = "/" THEN dropSlashes(Tail(s)) ELSE s

parseURL(input) ==
  LET s == trim(input)
      k == IndexOfAny(s, {":"})
  IN  IF s = <<>> \/ k > Len(s) THEN UrlFailure
      ELSE IF ~IsAlpha(s[1]) \/ \E i \in 2..(k - 1) : ~IsSchemeChar(s[i]) THEN UrlFailure
      ELSE LET scheme == toLowerCase(SubSeq(s, 1, k - 1))
               rest == SubSeq(s, k + 1, Len(s))
           IN  IF scheme \in SpecialSchemes
               THEN parseAuthorityAndPath(scheme, dropSlashes(rest), TRUE)
               ELSE IF startsWith(rest, <<"/","/">>)
               THEN parseAuthorityAndPath(scheme, SubSeq(rest, 3, Len(rest)), FALSE)
               ELSE IF startsWith(rest, <<"/">>)
               THEN [ok |-> TRUE, protocol |-> scheme, hostname |-> <<>>,
                     pathname |-> hierPathname(
                        SubSeq(rest, 1, IndexOfAny(rest, {"?", "#"}) - 1), FALSE)]
               ELSE [ok |-> TRUE, protocol |-> scheme, hostname |-> <<>>,
                     pathname |-> SubSeq(rest, 1, IndexOfAny(rest, {"?", "#"}) - 1)]

\* The TypeError that new URL throws on a parse failure.
InvalidUrlError == MkError("TypeError", "Invalid URL", 0, <<>>)

(***************************************************************************)
(* JavaScript values                                                       *)
(***************************************************************************)
JsNull == [t |-> "null"]
JsUndefined == [t |-> "undefined"]
JsStr(s) == [t |-> "string", v |-> s]
JsNum(n) == [t |-> "number", num |-> n]
JsArr(a) == [t |-> "array", items |-> a]
JsObj(o) == [t |-> "object", props |-> o]

IsStr(x) == x.t = "string"
IsNum(x) == x.t = "number"
IsArr(x) == x.t = "array"

\* ToBoolean
Truthy(x) ==
  CASE x.t = "null" -> FALSE
    [] x.t = "undefined" -> FALSE
    [] x.t = "string" -> x.v # <<>>
    [] x.t = "number" -> x.num # 0
    [] OTHER -> TRUE

\* a || b
Or(a, b) == IF Truthy(a) THEN a ELSE b

(***************************************************************************)
(* extractArxivId                                                          *)
(***************************************************************************)
ArxivOrg == <<"a","r","x","i","v",".","o","r","g">>

\* (parts.pop() || '')
popOrEmpty(parts) == IF parts = <<>> THEN <<>> ELSE parts[Len(parts)]

extractArxivId(input) ==
  LET u == parseURL(input)
  IN  IF ~u.ok THEN JsNull
      ELSE IF ~endsWith(u.hostname, ArxivOrg) THEN JsNull
      ELSE LET parts == filterBoolean(split(u.pathname, "/"))
               last == stripPdfSuffix(popOrEmpty(parts))
           IN  IF last # <<>> THEN JsStr(last) ELSE JsNull

(***************************************************************************)
(* normalizePaperInput                                                     *)
(***************************************************************************)
ArxivAbs == <<"h","t","t","p","s",":","/","/","a","r","x","i","v",".","o","r","g",
              "/","a","b","s","/">>
WebArchive == <<"h","t","t","p","s",":","/","/","w","e","b",".","a","r","c","h","i","v","e",
                ".","o","r","g","/","w","e","b","/","2","/">>
AbsSeg == <<"a","b","s">>
PdfSeg == <<"p","d","f">>

\* input = input.trim()
trimInputIdentity(input) == input
trimInput(input) == trim(input)

\* pathParts[0] === 'abs' && pathParts[1]: return input
absBranchRebuilt(input, pathParts) == ArxivAbs \o pathParts[2]
absBranch(input, pathParts) == input

\* pathParts[0] === 'pdf' && pathParts[1]
pdfBranch(pathParts) == ArxivAbs \o stripPdfSuffix(pathParts[2])

\* pathParts.length === 1
idBranch(pathParts) == ArxivAbs \o stripPdfSuffix(pathParts[1])

\* hostname !== 'arxiv.org'
archiveBranch(input) == WebArchive \o input

\* catch: not a URL, assume arXiv ID
bareIdBranch(input) == ArxivAbs \o input

normalizePaperInput(raw) ==
  LET input == trimInput(raw)
      url == parseURL(input)
  IN  IF ~url.ok THEN Return(bareIdBranch(input))
      ELSE IF url.hostname = ArxivOrg
      THEN LET pathParts == filterBoolean(split(url.pathname, "/"))
           IN  IF Len(pathParts) >= 2 /\ pathParts[1] = AbsSeg
               THEN Return(absBranch(input, pathParts))
               ELSE IF Len(pathParts) >= 2 /\ pathParts[1] = PdfSeg
               THEN Return(pdfBranch(pathParts))
               ELSE IF Len(pathParts) = 1
               THEN Return(idBranch(pathParts))
               ELSE Return(input)
      ELSE Return(archiveBranch(input))

(***************************************************************************)
(* categorizeAffiliation                                                   *)
(***************************************************************************)
Academia == <<"A","c","a","d","e","m","i","a">>
Industry == <<"I","n","d","u","s","t","r","y">>
Other == <<"O","t","h","e","r">>

\* /(univ|institute|college|school|laborator|centre|center)/
AcademiaKeywords ==
  { <<"u","n","i","v">>, <<"i","n","s","t","i","t","u","t","e">>,
    <<"c","o","l","l","e","g","e">>, <<"s","c","h","o","o","l">>,
    <<"l","a","b","o","r","a","t","o","r">>, <<"c","e","n","t","r","e">>,
    <<"c","e","n","t","e","r">> }

\* /(inc|corp|labs|technolog|systems|company|ltd|llc|google|microsoft|meta|ibm|
\*   amazon|nvidia|openai|deepmind)/
IndustryKeywords ==
  { <<"i","n","c">>, <<"c","o","r","p">>, <<"l","a","b","s">>,
    <<"t","e","c","h","n","o","l","o","g">>, <<"s","y","s","t","e","m","s">>,
    <<"c","o","m","p","a","n","y">>, <<"l","t","d">>, <<"l","l","c">>,
    <<"g","o","o","g","l","e">>, <<"m","i","c","r","o","s","o","f","t">>,
    <<"m","e","t","a">>, <<"i","b","m">>, <<"a","m","a","z","o","n">>,
    <<"n","v","i","d","i","a">>, <<"o","p","e","n","a","i">>,
    <<"d","e","e","p","m","i","n","d">> }

\* Affiliation texts.
MIT == <<"M","I","T">>
GoogleInc == <<"G","o","o","g","l","e"," ","I","n","c">>
SpringfieldResearchersCollective ==
  <<"S","p","r","i","n","g","f","i","e","l","d"," ","R","e","s","e","a","r","c","h","e","r","s",
    " ","C","o","l","l","e","c","t","i","v","e">>

\* const a = aff.toLowerCase()
lowerAffiliationIdentity(s) == s
lowerAffiliation(s) == toLowerCase(s)

\* aff is a JavaScript value: null, undefined or a string.
categorizeAffiliation(aff) ==
  IF ~Truthy(aff) THEN Other
  ELSE LET a == lowerAffiliation(aff.v)
       IN  IF \E k \in AcademiaKeywords : includes(a, k) THEN Academia
           ELSE IF \E k \in IndustryKeywords : includes(a, k) THEN Industry
           ELSE Other

(***************************************************************************)
(* inferCollabType: list is a sequence of objects with a category field    *)
(***************************************************************************)
AcademiaOnly == <<"A","c","a","d","e","m","i","a","-","o","n","l","y">>
IndustryOnly == <<"I","n","d","u","s","t","r","y","-","o","n","l","y">>
AcademiaIndustry == <<"A","c","a","d","e","m","i","a","-","I","n","d","u","s","t","r","y">>
Unknown == <<"U","n","k","n","o","w","n">>

\* inferCollabTypeOfFirst looks at the first entry only.
inferCollabTypeOfFirst(list) ==
  IF Len(list) = 0 THEN Unknown
  ELSE IF list[1].category = JsStr(Academia) THEN AcademiaOnly
  ELSE IF list[1].category = JsStr(Industry) THEN IndustryOnly
  ELSE Unknown

inferCollabType(list) ==
  IF Len(list) = 0 THEN Unknown
  ELSE LET hasAcad == \E i \in DOMAIN list : list[i].category = JsStr(Academia)
           hasInd == \E i \in DOMAIN list : list[i].category = JsStr(Industry)
       IN  IF hasAcad /\ hasInd THEN AcademiaIndustry
           ELSE IF hasAcad THEN AcademiaOnly
           ELSE IF hasInd THEN IndustryOnly
           ELSE Unknown

(***************************************************************************)
(* fetchArxivMeta: the locals, and the extraction from the two upstream    *)
(* documents.  An upstream document is given by what the regular           *)
(* expressions of the source match in it: JsUndefined for no match, else   *)
(* the raw captured text.                                                  *)
(***************************************************************************)
ArxivPdf == <<"h","t","t","p","s",":","/","/","a","r","x","i","v",".","o","r","g",
              "/","p","d","f","/">>
AtomQuery == <<"h","t","t","p","s",":","/","/","e","x","p","o","r","t",".","a","r","x","i","v",
               ".","o","r","g","/","a","p","i","/","q","u","e","r","y","?","i","d","_","l","i",
               "s","t","=">>

\* The locals of fetchArxivMeta as declared, with the extracted id.
initialMeta(id) ==
  [id |-> id, title |-> JsNull, abstract |-> JsNull, authors |-> <<>>,
   absUrl |-> JsNull, pdfUrl |-> JsNull, authorsDetailed |-> <<>>,
   codeLinks |-> <<>>, videoLinks |-> <<>>, modelLinks |-> <<>>]

\* encodeURIComponent: unreserved characters stay, the others are
\* percent-encoded (the escapes of the characters that occur in the model).
PercentEscapes ==
  [c \in {" ", "#", "%", "&", "+", "/", ":", "=", "?", "@"} |->
     CASE c = " " -> <<"%","2","0">>
       [] c = "#" -> <<"%","2","3">>
       [] c = "%" -> <<"%","2","5">>
       [] c = "&" -> <<"%","2","6">>
       [] c = "+" -> <<"%","2","B">>
       [] c = "/" -> <<"%","2","F">>
       [] c = ":" -> <<"%","3","A">>
       [] c = "=" -> <<"%","3","D">>
       [] c = "?" -> <<"%","3","F">>
       [] c = "@" -> <<"%","4","0">>]

RECURSIVE encodeURIComponent(_)
encodeURIComponent(s) ==
  IF s = <<>> THEN <<>>
  ELSE (IF s[1] \in DOMAIN PercentEscapes THEN PercentEscapes[s[1]] ELSE <<s[1]>>)
       \o encodeURIComponent(Tail(s))

\* m ? m[1].replace(/\s+/g, ' ').trim() : null
cleanMatch(m) == IF m.t = "string" THEN JsStr(collapseAndTrim(m.v)) ELSE JsNull

\* authorBlocks.forEach: an author is kept only when its name is non-empty;
\* the kept author is pushed on authors and on authorsDetailed together.
RECURSIVE atomAuthors(_, _, _)
atomAuthors(blocks, i, acc) ==
  IF i > Len(blocks) THEN acc
  ELSE LET name == cleanMatch(blocks[i].name)
           affiliation == cleanMatch(blocks[i].affiliation)
       IN  IF Truthy(name)
           THEN atomAuthors(blocks, i + 1,
                  [authors |-> Append(acc.authors, name),
                   authorsDetailed |-> Append(acc.authorsDetailed,
                      [name |-> name, affiliation |-> affiliation,
                       category |-> JsStr(categorizeAffiliation(affiliation))])])
           ELSE atomAuthors(blocks, i + 1, acc)

\* The primary path after a successful response: xml is the Atom document.
metaFromAtom(id, xml) ==
  LET a == atomAuthors(xml.authors, 1, [authors |-> <<>>, authorsDetailed |-> <<>>])
  IN  [initialMeta(id) EXCEPT
         !.title = IF xml.title.t = "string" THEN cleanMatch(xml.title) ELSE JsNull,
         !.abstract = IF xml.summary.t = "string" THEN cleanMatch(xml.summary) ELSE JsNull,
         !.authors = a.authors,
         !.authorsDetailed = a.authorsDetailed,
         !.absUrl = JsStr(ArxivAbs \o id.v),
         !.pdfUrl = JsStr(ArxivPdf \o id.v \o DotPdf)]

\* s.replace(/<[^>]+>/g, '')
RECURSIVE stripTags(_)
stripTags(s) ==
  IF s = <<>> THEN <<>>
  ELSE LET j == IndexOfAny(Tail(s), {">"})
       IN  IF s[1] = "<" /\ j >= 2 /\ j <= Len(s) - 1
           THEN stripTags(SubSeq(s, j + 2, Len(s)))
           ELSE <<s[1]>> \o stripTags(Tail(s))

\* m[1].replace(/<[^>]+>/g, '').replace(/\s+/g, ' ').trim()
cleanHtml(raw) == collapseAndTrim(stripTags(raw))

\* s.replace(/&amp;/g, '&')
Amp == <<"&","a","m","p",";">>
RECURSIVE decodeAmp(_)
decodeAmp(s) ==
  IF s = <<>> THEN <<>>
  ELSE IF startsWith(s, Amp) THEN <<"&">> \o decodeAmp(SubSeq(s, Len(Amp) + 1, Len(s)))
  ELSE <<s[1]>> \o decodeAmp(Tail(s))

\* m[1].replace(/&amp;/g, '&').trim().replace(/#.*$/, '')
cleanLink(raw) ==
  LET l == trim(decodeAmp(raw))
  IN  SubSeq(l, 1, IndexOfAny(l, {"#"}) - 1)

isCodeLink(link) == includes(toLowerCase(link), <<"g","i","t","h","u","b",".","c","o","m","/">>)
isVideoLink(link) ==
  \/ includes(toLowerCase(link), <<"y","o","u","t","u",".","c","o","m">>)
  \/ includes(toLowerCase(link), <<"y","o","u","t","u","b","e",".","c","o","m">>)
  \/ includes(toLowerCase(link), <<"v","i","m","e","o",".","c","o","m">>)
isModelLink(link) ==
  includes(toLowerCase(link), <<"h","u","g","g","i","n","g","f","a","c","e",".","c","o","/">>)

\* The links of one kind, in page order ("code", "video" or "model"); the
\* three tests are tried in this order and the first that matches decides.
linkKind(link) ==
  IF isCodeLink(link) THEN "code"
  ELSE IF isVideoLink(link) THEN "video"
  ELSE IF isModelLink(link) THEN "model"
  ELSE "none"

RECURSIVE linksOfKind(_, _)
linksOfKind(raws, kind) ==
  IF raws = <<>> THEN <<>>
  ELSE LET link == cleanLink(raws[1])
       IN  (IF linkKind(link) = kind THEN <<JsStr(link)>> ELSE <<>>)
           \o linksOfKind(Tail(raws), kind)

\* authors = aMatches.map(clean).filter(Boolean)
RECURSIVE htmlAuthors(_)
htmlAuthors(anchors) ==
  IF anchors = <<>> THEN <<>>
  ELSE LET name == cleanHtml(anchors[1])
       IN  (IF name # <<>> THEN <<JsStr(name)>> ELSE <<>>) \o htmlAuthors(Tail(anchors))

\* metaFromHtmlUnfiltered builds authorsDetailed from every anchor, the blank
\* ones included.
metaFromHtmlUnfiltered(m, html) ==
  [m EXCEPT
     !.authors = htmlAuthors(html.anchors),
     !.authorsDetailed =
        [i \in DOMAIN html.anchors |->
           [name |-> JsStr(cleanHtml(html.anchors[i])), affiliation |-> JsNull,
            category |-> JsStr(Other)]]]

\* The fallback path after the abstract page arrived: m is the metadata
\* collected before the fetch (absUrl and pdfUrl set), html the page.
metaFromHtml(m, html) ==
  LET names == htmlAuthors(html.anchors)
  IN  [m EXCEPT
         !.title = IF html.title.t = "string" THEN JsStr(cleanHtml(html.title.v)) ELSE JsNull,
         !.abstract = IF html.abstract.t = "string"
                      THEN JsStr(cleanHtml(html.abstract.v)) ELSE JsNull,
         !.authors = IF Len(html.anchors) > 0 THEN names ELSE <<>>,
         !.authorsDetailed =
            IF Len(html.anchors) > 0
            THEN [i \in DOMAIN names |->
                    [name |-> names[i], affiliation |-> JsNull, category |-> JsStr(Other)]]
            ELSE <<>>,
         !.codeLinks = linksOfKind(html.links, "code"),
         !.videoLinks = linksOfKind(html.links, "video"),
         !.modelLinks = linksOfKind(html.links, "model")]

(***************************************************************************)
(* Property access on JavaScript values                                    *)
(***************************************************************************)
IsNullish(x) == x.t \in {"null", "undefined"}

\* x.k for x neither null nor undefined
GetProp(x, k) ==
  IF x.t = "object" /\ k \in DOMAIN x.props THEN x.props[k] ELSE JsUndefined

\* x[0] for x neither null nor undefined
GetFirst(x) ==
  IF x.t = "array" /\ Len(x.items) > 0 THEN x.items[1]
  ELSE IF x.t = "string" /\ Len(x.v) > 0 THEN JsStr(<<x.v[1]>>)
  ELSE JsUndefined

\* x?.k and x?.[0]
OptProp(x, k) == IF IsNullish(x) THEN JsUndefined ELSE GetProp(x, k)
OptFirst(x) == IF IsNullish(x) THEN JsUndefined ELSE GetFirst(x)

\* x.length
lengthOf(x) ==
  IF x.t = "array" THEN JsNum(Len(x.items))
  ELSE IF x.t = "string" THEN JsNum(Len(x.v))
  ELSE GetProp(x, "length")

\* Array.isArray(x) ? x : []
arrayOrEmpty(x) == IF IsArr(x) THEN x ELSE JsArr(<<>>)

\* x ?? undefined
nullToUndefined(x) == IF x.t = "null" THEN JsUndefined ELSE x

(***************************************************************************)
(* The model's text: extraction from the response, fence stripping and     *)
(* JSON.parse.  In a text, a JSON document is one element of the sequence, *)
(* the name of a document of JsonDocument; every other element is one      *)
(* character.                                                              *)
(***************************************************************************)
\* data?.candidates?.[0]?.content?.parts?.[0]?.text || ''
extractText(data) ==
  Or(OptProp(OptFirst(OptProp(OptProp(OptFirst(OptProp(data, "candidates")),
                                      "content"), "parts")), "text"),
     JsStr(<<>>))

\* The backquote character (a bare backquote cannot be written as a string
\* of its own in this notation, so it is named by its code point).
Backquote == "U+0060"
Fence == <<Backquote, Backquote, Backquote>>
JsonFence == Fence \o <<"j","s","o","n">>

\* The pattern p (lower case) matches at position i of s, ignoring case.
matchesAt(s, i, p) ==
  /\ i + Len(p) - 1 <= Len(s)
  /\ toLowerCase(SubSeq(s, i, i + Len(p) - 1)) = p

\* The first position >= i that holds no whitespace (Len(s) + 1 if none).
skipWs(s, i) ==
  LET J == {j \in i..Len(s) : ~IsWs(s[j])}
  IN  IF J = {} THEN Len(s) + 1 ELSE Min(J)

\* \s*``` matches at position q
closesAt(s, q) == matchesAt(s, skipWs(s, q), Fence)

\* s.match(/<open>\s*([\s\S]*?)\s*```/i): the leftmost opening that has a
\* closing fence after it; the capture starts after the whitespace that
\* follows the opening and is the shortest that a closing fence follows.
fenceMatch(s, open) ==
  LET closings(i) == {q \in skipWs(s, i + Len(open))..Len(s) : closesAt(s, q)}
      starts == {i \in 1..Len(s) : matchesAt(s, i, open) /\ closings(i) # {}}
  IN  IF starts = {} THEN [matched |-> FALSE, capture |-> <<>>]
      ELSE LET i == Min(starts)
           IN  [matched |-> TRUE,
                capture |-> SubSeq(s, skipWs(s, i + Len(open)), Min(closings(i)) - 1)]

\* extractJsonStrUnfenced leaves the fences where they are.
extractJsonStrUnfenced(text) == trim(text)

\* let jsonStr = text.trim(); fenced = ...; if (fenced) jsonStr = fenced[1].trim()
extractJsonStr(text) ==
  LET jsonStr == trim(text)
      withTag == fenceMatch(jsonStr, JsonFence)
      fenced == IF withTag.matched THEN withTag ELSE fenceMatch(jsonStr, Fence)
  IN  IF fenced.matched THEN trim(fenced.capture) ELSE jsonStr

\* Short strings of the model's documents.
StrX == <<"x">>
StrY == <<"y">>
StrMixed == <<"M","i","x","e","d">>
StrAnn == <<"A","n","n">>
StrBob == <<"B","o","b">>

\* The JSON documents a text may hold, by name.
DocNames == {"{minimal}", "{scores}", "{full}", "{badtypes}", "{nullauthor}"}

JsonDocument(d) ==
  CASE d = "{minimal}" -> JsObj([one_liner |-> JsStr(StrX)])
    [] d = "{scores}" ->
         JsObj([one_liner |-> JsStr(StrX),
                reliability_score |-> JsNum(80),
                applicability_score |-> JsNum(50)])
    [] d = "{full}" ->
         JsObj([title |-> JsStr(StrY),
                arxiv_id |-> JsStr(StrY),
                arxiv_abs_url |-> JsStr(StrY),
                arxiv_pdf_url |-> JsStr(StrY),
                one_liner |-> JsStr(StrX),
                simplified_summary |-> JsStr(StrX),
                practical_problem |-> JsStr(StrX),
                problems_solved |-> JsArr(<<JsStr(StrX)>>),
                key_innovations |-> JsArr(<<JsStr(StrX)>>),
                impact_potential |-> JsArr(<<JsStr(StrX)>>),
                use_cases |-> JsArr(<<JsStr(StrX)>>),
                benchmarks |-> JsArr(<<JsObj([metric |-> JsStr(StrX)])>>),
                collaboration_type |-> JsStr(IndustryOnly),
                takeaways |-> JsArr(<<JsStr(StrX)>>),
                notes |-> JsArr(<<JsStr(StrX), JsStr(StrY)>>),
                resources |-> JsObj([code |-> JsArr(<<JsStr(StrX)>>)]),
                reliability_score |-> JsNum(70),
                applicability_score |-> JsNum(60),
                overall_score |-> JsNum(90),
                total_authors |-> JsNum(2),
                authors |-> JsArr(<<JsStr(StrAnn), JsStr(StrBob)>>),
                authors_affiliations |->
                  JsArr(<<JsObj([name |-> JsStr(StrAnn), affiliation |-> JsStr(StrX),
                                 category |-> JsStr(Industry)]),
                          JsObj([name |-> JsStr(StrBob), affiliation |-> JsStr(StrY),
                                 category |-> JsStr(Academia)])>>),
                affiliation_breakdown |->
                  JsObj([Academia |-> JsNum(1), Industry |-> JsNum(1), Other |-> JsNum(0)])])
    [] d = "{badtypes}" ->
         JsObj([one_liner |-> JsNum(7),
                problems_solved |-> JsStr(StrX),
                collaboration_type |-> JsStr(StrMixed),
                total_authors |-> JsStr(StrX),
                authors |-> JsStr(StrAnn),
                reliability_score |-> JsStr(StrX),
                authors_affiliations |-> JsArr(<<JsObj([name |-> JsStr(StrAnn)])>>)])
    [] d = "{nullauthor}" ->
         JsObj([one_liner |-> JsStr(StrX),
                authors_affiliations |-> JsArr(<<JsNull>>)])

JsonSyntaxError == MkError("SyntaxError", "Unexpected token in JSON", 0, <<>>)

RECURSIVE decimalValue(_, _)
decimalValue(s, acc) ==
  IF s = <<>> THEN acc
  ELSE decimalValue(Tail(s),
         10 * acc + (CHOOSE n \in 0..9 : <<"0","1","2","3","4","5","6","7","8","9">>[n + 1] = s[1]))

\* JSON.parse: a document name, or one of the literals null, {}, [] and an
\* unsigned integer, with whitespace around it; anything else is a
\* SyntaxError (the texts drawn hold no other valid JSON).
parseJSON(s) ==
  LET b == trim(s)
  IN  IF Len(b) = 1 /\ b[1] \in DocNames THEN Return(JsonDocument(b[1]))
      ELSE IF b = <<"n","u","l","l">> THEN Return(JsNull)
      ELSE IF b = <<"{","}">> THEN Return(JsObj(<<>>))
      ELSE IF b = <<"[","]">> THEN Return(JsArr(<<>>))
      ELSE IF b # <<>> /\ (\A i \in DOMAIN b : IsDigit(b[i])) /\ (Len(b) = 1 \/ b[1] # "0")
      THEN Return(JsNum(decimalValue(b, 0)))
      ELSE Throw(JsonSyntaxError)

(***************************************************************************)
(* summarizeWithGemini after the response arrived: the StructuredSummary   *)
(* built from the parsed object, and the degraded one built from the       *)
(* metadata.  A summary is a record of JavaScript values; a field the      *)
(* object literal does not set, or sets to undefined, is JsUndefined.      *)
(***************************************************************************)
FallbackOneLiner ==
  <<"S","u","m","m","a","r","y"," ","g","e","n","e","r","a","t","i","o","n"," ","f","a","i",
    "l","e","d",","," ","b","u","t"," ","p","a","p","e","r"," ","m","e","t","a","d","a","t",
    "a"," ","w","a","s"," ","r","e","t","r","i","e","v","e","d",".">>
FallbackNote ==
  <<"S","u","m","m","a","r","y"," ","g","e","n","e","r","a","t","i","o","n"," ","f","a","i",
    "l","e","d"," ","-"," ","p","l","e","a","s","e"," ","t","r","y"," ","a","g","a","i","n">>

PropertyTypeError == MkError("TypeError", "Cannot read properties of null", 0, <<>>)

\* list.reduce((acc, a) => { acc[a.category] = (acc[a.category] || 0) + 1 ... },
\*             { Academia: 0, Industry: 0, Other: 0 })
\* The counts of the three initial keys; a property the reduce adds for any
\* other category value is not represented.
countByCategory(list) ==
  LET n(c) == Cardinality({i \in DOMAIN list : list[i].category = JsStr(c)})
  IN  JsObj([Academia |-> JsNum(n(Academia)), Industry |-> JsNum(n(Industry)),
             Other |-> JsNum(n(Other))])

\* The authorsDetailed entries as the array of objects the summary carries.
asObjects(list) == JsArr([i \in DOMAIN list |-> JsObj(list[i])])

\* Math.round(rel * 0.6 + app * 0.4) for integers rel and app: 6*rel + 4*app
\* is even, so the sum is never within 0.1 of a tie and the floating-point
\* result rounds as the exact one.
roundedOverallDown(rel, app) == (6 * rel + 4 * app) \div 10
roundedOverall(rel, app) == (6 * rel + 4 * app + 5) \div 10

\* The body of the try block after JSON.parse returned parsed.
buildSummary(parsed, paperMeta) ==
  LET P(k) == GetProp(parsed, k)
      rel == IF IsNum(P("reliability_score")) THEN P("reliability_score") ELSE JsNull
      app == IF IsNum(P("applicability_score")) THEN P("applicability_score") ELSE JsNull
      overall == IF IsNum(P("overall_score")) THEN P("overall_score")
                 ELSE IF rel # JsNull /\ app # JsNull
                      THEN JsNum(roundedOverall(rel.num, app.num))
                      ELSE JsNull
      affs == P("authors_affiliations")
      authorsDetailed ==
        IF IsArr(affs)
        THEN [i \in DOMAIN affs.items |->
                [name |-> GetProp(affs.items[i], "name"),
                 affiliation |-> GetProp(affs.items[i], "affiliation"),
                 category |-> GetProp(affs.items[i], "category")]]
        ELSE <<>>
      resources == OptProp(parsed, "resources")
  IN  IF IsNullish(parsed) THEN Throw(PropertyTypeError)
      ELSE IF IsArr(affs) /\ \E i \in DOMAIN affs.items : IsNullish(affs.items[i])
      THEN Throw(PropertyTypeError)
      ELSE Return(
        [title |-> Or(Or(P("title"), paperMeta.title), JsUndefined),
         arxiv_id |-> Or(Or(P("arxiv_id"), paperMeta.id), JsUndefined),
         arxiv_abs_url |-> Or(Or(P("arxiv_abs_url"), paperMeta.absUrl), JsUndefined),
         arxiv_pdf_url |-> Or(Or(P("arxiv_pdf_url"), paperMeta.pdfUrl), JsUndefined),
         one_liner |-> Or(P("one_liner"), JsStr(<<>>)),
         simplified_summary |-> Or(P("simplified_summary"), JsUndefined),
         practical_problem |-> Or(P("practical_problem"), JsUndefined),
         problems_solved |-> arrayOrEmpty(P("problems_solved")),
         key_innovations |-> arrayOrEmpty(P("key_innovations")),
         impact_potential |-> arrayOrEmpty(P("impact_potential")),
         use_cases |-> arrayOrEmpty(P("use_cases")),
         benchmarks |-> arrayOrEmpty(P("benchmarks")),
         collaboration_type |->
           Or(P("collaboration_type"), JsStr(inferCollabType(authorsDetailed))),
         takeaways |-> arrayOrEmpty(P("takeaways")),
         notes |-> arrayOrEmpty(P("notes")),
         resources |->
           JsObj([code |-> arrayOrEmpty(OptProp(resources, "code")),
                  video |-> arrayOrEmpty(OptProp(resources, "video")),
                  checkpoints |-> arrayOrEmpty(OptProp(resources, "checkpoints"))]),
         reliability_score |-> nullToUndefined(rel),
         applicability_score |-> nullToUndefined(app),
         overall_score |-> nullToUndefined(overall),
         total_authors |->
           Or(P("total_authors"),
              IF Truthy(P("authors")) THEN lengthOf(P("authors")) ELSE JsNum(0)),
         authors |-> arrayOrEmpty(P("authors")),
         authors_affiliations |-> asObjects(authorsDetailed),
         affiliation_breakdown |->
           Or(P("affiliation_breakdown"), countByCategory(authorsDetailed))])

\* The catch block: the summary built from the fetched metadata alone.
degradedSummary(paperMeta) ==
  [title |-> Or(paperMeta.title, JsUndefined),
   arxiv_id |-> Or(paperMeta.id, JsUndefined),
   arxiv_abs_url |-> Or(paperMeta.absUrl, JsUndefined),
   arxiv_pdf_url |-> Or(paperMeta.pdfUrl, JsUndefined),
   one_liner |-> JsStr(FallbackOneLiner),
   simplified_summary |-> JsUndefined,
   practical_problem |-> JsUndefined,
   problems_solved |-> JsArr(<<>>),
   key_innovations |-> JsArr(<<>>),
   impact_potential |-> JsUndefined,
   use_cases |-> JsUndefined,
   benchmarks |-> JsArr(<<>>),
   collaboration_type |-> JsStr(inferCollabType(paperMeta.authorsDetailed)),
   takeaways |-> JsArr(<<>>),
   notes |-> JsArr(<<JsStr(FallbackNote)>>),
   resources |-> JsObj([code |-> JsArr(paperMeta.codeLinks),
                        video |-> JsArr(paperMeta.videoLinks),
                        checkpoints |-> JsArr(paperMeta.modelLinks)]),
   reliability_score |-> JsUndefined,
   applicability_score |-> JsUndefined,
   overall_score |-> JsUndefined,
   total_authors |-> JsNum(Len(paperMeta.authors)),
   authors |-> JsArr(paperMeta.authors),
   authors_affiliations |-> asObjects(paperMeta.authorsDetailed),
   affiliation_breakdown |-> countByCategory(paperMeta.authorsDetailed)]

\* try { parse and build } catch { degraded }
parseOrDegrade(jsonStr, paperMeta) ==
  LET parsed == parseJSON(jsonStr)
      built == buildSummary(parsed.value, paperMeta)
  IN  IF parsed.kind = "throw" THEN Return(degradedSummary(paperMeta))
      ELSE IF built.kind = "throw" THEN Return(degradedSummary(paperMeta))
      ELSE built

BodyNotJsonError == MkError("SyntaxError", "Unexpected token in JSON", 0, <<>>)
TrimTypeError == MkError("TypeError", "text.trim is not a function", 0, <<>>)

\* !res.ok: throw new Error(`Gemini error ${res.status}: ${txt}`)
geminiErrorWithoutBody(status, txt) == MkError("Error", "Gemini error", status, <<>>)
geminiError(status, txt) == MkError("Error", "Gemini error", status, txt)

\* summarizeWithGemini from res.json() on, for a response with res.ok.
\* body.json tells whether the body is JSON at all; body.data is then its
\* value.  res.json() and text.trim() are outside the try block.
resolveOk(body, paperMeta) ==
  IF ~body.json THEN Throw(BodyNotJsonError)
  ELSE LET text == extractText(body.data)
       IN  IF ~IsStr(text) THEN Throw(TrimTypeError)
           ELSE parseOrDegrade(extractJsonStr(text.v), paperMeta)

\* buildPrompt: the values interpolated into the fixed template.
buildPrompt(paperMeta) ==
  [title |-> Or(paperMeta.title, JsStr(Unknown)),
   id |-> Or(paperMeta.id, JsStr(Unknown)),
   abstract |-> Or(paperMeta.abstract,
                   JsStr(<<"N","o"," ","a","b","s","t","r","a","c","t"," ","a","v","a","i","l",
                           "a","b","l","e">>)),
   authors |-> Or(JsStr(join([i \in DOMAIN paperMeta.authors |-> paperMeta.authors[i].v],
                             <<",", " ">>)),
                  JsStr(<<"U","n","k","n","o","w","n"," ","a","u","t","h","o","r","s">>)),
   absUrl |-> Or(paperMeta.absUrl, JsStr(Unknown)),
   pdfUrl |-> Or(paperMeta.pdfUrl, JsStr(Unknown))]

(***************************************************************************)
(* Paper references the normalizer is applied to                           *)
(***************************************************************************)
MaxSegs == 3
MaxPad == 1

Https == <<"h","t","t","p","s",":","/","/">>
Http == <<"h","t","t","p",":","/","/">>
Id2506 == <<"2","5","0","6",".","0","1","6","6","7">>
Id2506v2 == <<"2","5","0","6",".","0","1","6","6","7","v","2">>
OldStyleArchive == <<"h","e","p","-","t","h">>
OldStyleNumber == <<"9","9","0","1","0","0","1">>
OldStyleId == OldStyleArchive \o <<"/">> \o OldStyleNumber
ExampleCom == <<"e","x","a","m","p","l","e",".","c","o","m">>
ArxivAbsPath == ArxivOrg \o <<"/">> \o AbsSeg \o <<"/">>
ArxivPdfPath == ArxivOrg \o <<"/">> \o PdfSeg \o <<"/">>

UrlSchemes == { Https, Http, <<"H","T","T","P","S",":","/","/">> }
UrlHosts == { ArxivOrg, <<"w","w","w",".">> \o ArxivOrg, ExampleCom }
PathSegments == { AbsSeg, PdfSeg, Id2506, OldStyleArchive, OldStyleNumber \o DotPdf }
PathTails == { <<>>, <<"/">>, <<"?","v","=","1">> }

RECURSIVE PathsUpTo(_)
PathsUpTo(n) ==
  IF n = 0 THEN {<<>>}
  ELSE LET P == PathsUpTo(n - 1)
       IN  P \cup { p \o <<"/">> \o s : p \in P, s \in PathSegments }

UrlReferences ==
  { sch \o h \o p \o tl :
      sch \in UrlSchemes, h \in UrlHosts, p \in PathsUpTo(MaxSegs), tl \in PathTails }

\* Further references, each also taken with surrounding spaces: bare
\* identifiers, a host without a scheme, the empty string, the "arXiv:"
\* citation form, a scheme with no host, a scheme without slashes, a port, a
\* versioned identifier with an upper-case suffix, dot segments.
OtherReferences ==
  { Id2506, OldStyleId, ArxivAbsPath \o Id2506, <<>>,
    <<"a","r","X","i","v",":">> \o Id2506, Https,
    Https \o ArxivAbsPath \o Id2506,
    Https \o ArxivPdfPath \o Id2506 \o DotPdf,
    <<"h","t","t","p","s",":">> \o ArxivAbsPath \o Id2506,
    Https \o ArxivOrg \o <<":","4","4","3","/">> \o PdfSeg \o <<"/">> \o Id2506,
    Https \o ArxivPdfPath \o Id2506v2 \o <<".","P","D","F">>,
    Https \o ArxivAbsPath \o <<".",".","/">> \o Id2506 }

RECURSIVE Spaces(_)
Spaces(n) == IF n = 0 THEN <<>> ELSE <<" ">> \o Spaces(n - 1)

PaddedReferences ==
  { Spaces(l) \o b \o Spaces(r) : l \in 0..MaxPad, r \in 0..MaxPad, b \in OtherReferences }

PaperReferences == UrlReferences \cup PaddedReferences

(***************************************************************************)
(* Requests and upstream replies of the pipeline                           *)
(***************************************************************************)
MaxAuthors == 2

\* The paper parameter of the requests: a bare identifier, a pdf URL, the
\* arXiv front page (an arxiv.org URL with no identifier in it), a URL on
\* another host, and the empty parameter.
PipelinePapers ==
  { Id2506,
    Https \o ArxivPdfPath \o Id2506 \o DotPdf,
    Https \o ArxivOrg \o <<"/">>,
    Https \o ExampleCom \o <<"/","p","a","p","e","r">>,
    <<>> }

\* What the expressions for name and affiliation match in an <author> block.
AuthorBlocks ==
  { [name |-> JsStr(<<" ","A","n","n","\n"," ","L","e","e"," ">>), affiliation |-> JsStr(MIT)],
    [name |-> JsStr(<<"B","o","b">>),
     affiliation |-> JsStr(<<"S","t","a","n","f","o","r","d"," "," ","U","n","i","v","e","r",
                             "s","i","t","y">>)],
    [name |-> JsStr(<<"C","y">>), affiliation |-> JsStr(GoogleInc)],
    [name |-> JsStr(<<"D","e","e">>), affiliation |-> JsUndefined],
    [name |-> JsStr(<<" ">>), affiliation |-> JsStr(GoogleInc)] }

RECURSIVE AuthorListsUpTo(_)
AuthorListsUpTo(n) ==
  IF n = 0 THEN {<<>>}
  ELSE LET L == AuthorListsUpTo(n - 1)
       IN  L \cup { Append(l, b) : l \in L, b \in AuthorBlocks }

\* What the expressions for title and summary match in the Atom document.
AtomHeads ==
  { [title |-> JsStr(<<" ","A","\n"," ","T","i","t","l","e"," ">>),
     summary |-> JsStr(<<"A","n"," "," ","a","b","s","t","r","a","c","t">>)],
    [title |-> JsStr(<<"T">>), summary |-> JsUndefined],
    [title |-> JsUndefined, summary |-> JsUndefined] }

AtomDocuments ==
  { [title |-> h.title, summary |-> h.summary, authors |-> l] :
      h \in AtomHeads, l \in AuthorListsUpTo(MaxAuthors) }

\* What the expressions match in the abstract page: nothing at all, a full
\* page, and a page whose only author anchor is blank.
HtmlPages ==
  { [title |-> JsUndefined, abstract |-> JsUndefined, anchors |-> <<>>, links |-> <<>>],
    [title |-> JsStr(<<"<","b",">","A","<","/","b",">"," ","T","i","t","l","e">>),
     abstract |-> JsStr(<<" ","T","e","x","t"," ">>),
     anchors |-> << <<"<","i",">","A","n","n","<","/","i",">">>, <<" ">>, <<"B","o","b">> >>,
     links |-> << <<"h","t","t","p","s",":","/","/","g","i","t","h","u","b",".","c","o","m",
                    "/","a","/","b">>,
                  <<"h","t","t","p","s",":","/","/","y","o","u","t","u","b","e",".","c","o",
                    "m","/","w","?","a","=","1","&","a","m","p",";","b","=","2">>,
                  <<"h","t","t","p","s",":","/","/","h","u","g","g","i","n","g","f","a","c",
                    "e",".","c","o","/","m">>,
                  <<"h","t","t","p","s",":","/","/","e","x","a","m","p","l","e",".","c","o",
                    "m","/","x">>,
                  <<"h","t","t","p",":","/","/","G","i","t","H","u","b",".","c","o","m","/",
                    "c"," ">> >>],
    [title |-> JsUndefined, abstract |-> JsUndefined, anchors |-> << <<" ">> >>,
     links |-> <<>>] }

\* HTTP statuses of the replies; res.ok is status in 200..299.
OkStatuses == {200}
ErrorStatuses == {404, 500}
isOk(status) == status >= 200 /\ status <= 299

\* The texts of the model: empty, each document bare, a document in a json
\* fence (lower and upper case tag), in a fence without a tag, in a fence
\* with another tag, in a fence after prose, in a fence that is never
\* closed, and texts that are no document (prose, null, a number).
NL == <<"\n">>
Doc(d) == <<d>>
LlmTexts ==
  { <<>> } \cup { Doc(d) : d \in DocNames } \cup
  { JsonFence \o NL \o Doc("{minimal}") \o NL \o Fence,
    Fence \o <<"J","S","O","N">> \o NL \o Doc("{scores}") \o NL \o Fence,
    Fence \o NL \o Doc("{minimal}") \o NL \o Fence,
    Fence \o <<"j","s">> \o NL \o Doc("{minimal}") \o NL \o Fence,
    <<"H","e","r","e",":"," ">> \o JsonFence \o <<" ">> \o Doc("{full}") \o <<" ">> \o Fence,
    JsonFence \o NL \o Doc("{minimal}"),
    <<"S","o","r","r","y">>,
    <<"S","o","r","r","y"," ">> \o Doc("{minimal}"),
    <<"n","u","l","l">>,
    <<"4","2">> }

\* The body of a generateContent response whose first candidate has the
\* given text value.
candidateData(text) ==
  JsObj([candidates |->
    JsArr(<<JsObj([content |->
      JsObj([parts |-> JsArr(<<JsObj([text |-> text])>>)])])>>)])

\* Bodies of the replies with res.ok: not JSON at all, JSON without
\* candidates, JSON null, a text that is a number, and the texts above.
LlmBodies ==
  { [json |-> FALSE, data |-> JsNull],
    [json |-> TRUE, data |-> JsObj(<<>>)],
    [json |-> TRUE, data |-> JsNull],
    [json |-> TRUE, data |-> candidateData(JsNum(5))] } \cup
  { [json |-> TRUE, data |-> candidateData(JsStr(t))] : t \in LlmTexts }

\* Bodies of the replies without res.ok, read by res.text().
ErrorTexts == { <<>>, <<"q","u","o","t","a">> }

ApiKey == <<"K","E","Y">>

(***************************************************************************)
(* State                                                                   *)
(***************************************************************************)
VARIABLES
  pc,         \* where the request is: "idle", "awaitAtom", "awaitAbsPage",
              \* "awaitLLM", "done"
  paper,      \* the paper parameter of the request
  paperMeta,  \* the metadata: the locals of fetchArxivMeta, then its result
  calls,      \* the outbound calls made so far, in order
  replies,    \* the replies to them, in order
  response,   \* the response of the handler, once done
  arg,        \* the argument of the function under test (SpecNormalize, SpecClassify)
  ret,        \* its outcome, or NotCalled
  request,    \* the request the handler received, with the ALLOWED_ORIGINS setting
  app,        \* the state of the App component
  fetches     \* the requests of the App component that are not answered yet

vars == <<pc, paper, paperMeta, calls, replies, response, arg, ret, request, app, fetches>>
pipelineVars == <<pc, paper, paperMeta, calls, replies, response, request, app, fetches>>

NotCalled == [kind |-> "none", value |-> <<>>]

(***************************************************************************)
(* The pipeline: the handler from the paper parameter on,                  *)
(* summarizeWithGemini and fetchArxivMeta, one action per stretch of code  *)
(* between two awaited upstream replies.                                   *)
(***************************************************************************)
NoPrompt == [none |-> TRUE]
NoSummary == [none |-> TRUE]
NoMessage == [text |-> "", status |-> 0, body |-> <<>>]

LlmEndpoint ==
  <<"h","t","t","p","s",":","/","/","g","e","n","e","r","a","t","i","v","e","l","a","n","g",
    "u","a","g","e",".","g","o","o","g","l","e","a","p","i","s",".","c","o","m","/","v","1",
    "b","e","t","a","/","m","o","d","e","l","s","/","g","e","m","i","n","i","-","2",".","5",
    "-","f","l","a","s","h",":","g","e","n","e","r","a","t","e","C","o","n","t","e","n","t",
    "?","k","e","y","=">> \o encodeURIComponent(ApiKey)

atomCall(id) ==
  [kind |-> "atom", url |-> AtomQuery \o encodeURIComponent(id.v), prompt |-> NoPrompt]
absPageCall(absUrl) == [kind |-> "abs", url |-> absUrl, prompt |-> NoPrompt]
llmCall(meta) == [kind |-> "llm", url |-> LlmEndpoint, prompt |-> buildPrompt(meta)]

\* new URL(url).pathname.split('/').filter(Boolean).pop().replace('.pdf','')
lastSegment(u) == stripPdfSuffix(popOrEmpty(filterBoolean(split(u.pathname, "/"))))

\* The metadata of the fallback path: the links are built from the last
\* path segment of the URL (lines 73-76).
metaOfAbsPage(id, id2) ==
  [initialMeta(id) EXCEPT !.absUrl = JsStr(ArxivAbs \o id2),
                          !.pdfUrl = JsStr(ArxivPdf \o id2 \o DotPdf)]

\* The branch fetchArxivMeta takes for the extracted id and the parsed URL.
fetchStep(id, u) ==
  IF Truthy(id)
  THEN [step |-> "atom", meta |-> initialMeta(id), call |-> atomCall(id)]
  ELSE IF u.ok /\ endsWith(u.hostname, ArxivOrg)
  THEN [step |-> "abs",
        meta |-> metaOfAbsPage(id, lastSegment(u)),
        call |-> absPageCall(ArxivAbs \o lastSegment(u))]
  ELSE [step |-> "return", meta |-> initialMeta(id), call |-> NoPrompt]

\* fetchArxivMeta up to its first await, or to its return when it awaits
\* nothing: step is "atom" (the Atom query is awaited), "abs" (the abstract
\* page is awaited) or "return".
startFetch(url) == fetchStep(extractArxivId(url), parseURL(url))

NetworkError == MkError("TypeError", "fetch failed", 0, <<>>)

\* await fetch(apiUrl) rejects: nothing catches it in fetchArxivMeta.
onAtomReject(m) == Throw(NetworkError)

\* if (!res.ok) throw new Error(`arXiv API error ${res.status}`), else the
\* extraction from the document.
onAtomReplySilent(m, status, xml) ==
  IF ~isOk(status) THEN Return(m) ELSE Return(metaFromAtom(m.id, xml))
onAtomReply(m, status, xml) ==
  IF ~isOk(status) THEN Throw(MkError("Error", "arXiv API error", status, <<>>))
  ELSE Return(metaFromAtom(m.id, xml))

\* await fetch(absUrl) rejects inside try { } catch {}: the metadata collected
\* so far is returned.
onAbsPageRejectThrows(m) == Throw(NetworkError)
onAbsPageReject(m) == Return(m)

\* The abstract page arrived; its status is not looked at.
onAbsPageReply(m, status, html) == Return(metaFromHtml(m, html))

\* await fetch(endpoint, ...) rejects: nothing catches it in summarizeWithGemini.
onLlmReject(m) == Throw(NetworkError)

\* The reply of the model endpoint: body is the text of res.text() when
\* !res.ok, and the body read by res.json() otherwise.
onLlmReply(m, status, body) ==
  IF ~isOk(status) THEN Throw(geminiError(status, body)) ELSE resolveOk(body, m)

\* The handler's responses: the summary, or { error: message } with a status.
summaryResponse(summary) == [status |-> 200, error |-> NoMessage, summary |-> summary]
\* catch (e): { error: e.message || 'Failed to summarize' }, status 500
errorResponse(e) ==
  [status |-> 500,
   error |-> IF e.text = "" THEN [text |-> "Failed to summarize", status |-> 0, body |-> <<>>]
             ELSE [text |-> e.text, status |-> e.status, body |-> e.body],
   summary |-> NoSummary]
missingPaperResponse ==
  [status |-> 400,
   error |-> [text |-> "Missing paper param", status |-> 0, body |-> <<>>],
   summary |-> NoSummary]
NoResponse == [status |-> 0, error |-> NoMessage, summary |-> NoSummary]

rejected(kind) == [kind |-> kind, rejected |-> TRUE, status |-> 0, body |-> <<>>]
replied(kind, status, body) == [kind |-> kind, rejected |-> FALSE, status |-> status, body |-> body]

PipelineIdle ==
  /\ pc = "idle"
  /\ paper = <<>>
  /\ paperMeta = initialMeta(JsNull)
  /\ calls = <<>>
  /\ replies = <<>>
  /\ response = NoResponse

(***************************************************************************)
(* The handler before the paper parameter: the route, the method and the   *)
(* origin allow-list                                                       *)
(***************************************************************************)
ApiSummarize == "/api/summarize"

\* (env.ALLOWED_ORIGINS || '').split(',').map(s => s.trim()).filter(Boolean)
allowedOrigins(env) ==
  LET parts == split(env, ",")
  IN  filterBoolean([i \in DOMAIN parts |-> trim(parts[i])])

\* isAllowedWithoutOrigin lets a request without an Origin header through.
isAllowedWithoutOrigin(req) ==
  \/ Len(allowedOrigins(req.env)) = 0
  \/ req.origin = <<>>
  \/ \E i \in DOMAIN allowedOrigins(req.env) : allowedOrigins(req.env)[i] = req.origin

\* allowed.length === 0 || allowed.includes(origin), origin being '' when the
\* header is absent
isAllowed(req) ==
  \/ Len(allowedOrigins(req.env)) = 0
  \/ \E i \in DOMAIN allowedOrigins(req.env) : allowedOrigins(req.env)[i] = req.origin

\* The request reaches the paper parameter.
Routed(req) == req.path = ApiSummarize /\ req.method # "OPTIONS" /\ isAllowed(req)

\* new Response(null, { headers: corsBase })
preflightResponse == [status |-> 200, error |-> NoMessage, summary |-> NoSummary]
\* { error: 'Forbidden' }, status 403
forbiddenResponse ==
  [status |-> 403,
   error |-> [text |-> "Forbidden", status |-> 0, body |-> <<>>],
   summary |-> NoSummary]
\* new Response('OK', { headers: corsBase })
plainOkResponse == [status |-> 200, error |-> NoMessage, summary |-> [plain |-> "OK"]]

\* A GET of /api/summarize with no Origin header and no ALLOWED_ORIGINS.
DirectRequest == [method |-> "GET", path |-> ApiSummarize, origin |-> <<>>, env |-> <<>>]

(***************************************************************************)
(* The App component: its state before it is mounted                       *)
(***************************************************************************)
NoAppError == [text |-> "", status |-> 0]

\* useState(initialParam), useState('idle'), useState(null), useState('')
AppUnmounted(initialParam) ==
  [mounted |-> FALSE, input |-> initialParam, activePaper |-> initialParam,
   status |-> "idle", summary |-> JsNull, error |-> NoAppError, urlParam |-> initialParam]

AppUnused == app = AppUnmounted(<<>>) /\ fetches = <<>>

Init ==
  /\ PipelineIdle
  /\ request = DirectRequest
  /\ AppUnused
  /\ arg = <<>>
  /\ ret = NotCalled

\* fetchArxivMeta ended with outcome: a throw reaches the handler's catch;
\* otherwise summarizeWithGemini goes on and posts the prompt.
MetaFetched(outcome) ==
  IF outcome.kind = "throw"
  THEN /\ pc' = "done"
       /\ response' = errorResponse(outcome.value)
       /\ UNCHANGED <<paperMeta, calls>>
  ELSE /\ pc' = "awaitLLM"
       /\ paperMeta' = outcome.value
       /\ calls' = Append(calls, llmCall(outcome.value))
       /\ UNCHANGED response

\* summarizeWithGemini ended with outcome.  Nothing in the handler posts the
\* prompt again; ResolvedWithRetry is the handler that would, once.
ResolvedWithRetry(outcome) ==
  IF outcome.kind = "throw" /\ Len(calls) < 3
  THEN /\ pc' = "awaitLLM"
       /\ calls' = Append(calls, calls[Len(calls)])
       /\ UNCHANGED <<paperMeta, response>>
  ELSE /\ pc' = "done"
       /\ response' = IF outcome.kind = "throw" THEN errorResponse(outcome.value)
                      ELSE summaryResponse(outcome.value)
       /\ UNCHANGED <<paperMeta, calls>>
Resolved(outcome) ==
  /\ pc' = "done"
  /\ response' = IF outcome.kind = "throw" THEN errorResponse(outcome.value)
                 ELSE summaryResponse(outcome.value)
  /\ UNCHANGED <<paperMeta, calls>>

\* if (!paper) return 400
MissingPaper ==
  /\ pc = "idle"
  /\ Routed(request)
  /\ \E p \in PipelinePapers :
       /\ p = <<>>
       /\ paper' = p
  /\ pc' = "done"
  /\ response' = missingPaperResponse
  /\ UNCHANGED <<paperMeta, calls, replies, arg, ret, request, app, fetches>>

\* normalizePaperInput, then summarizeWithGemini and fetchArxivMeta up to the
\* first await.
Started(f) ==
  IF f.step = "return"
  THEN MetaFetched(Return(f.meta))
  ELSE /\ pc' = IF f.step = "atom" THEN "awaitAtom" ELSE "awaitAbsPage"
       /\ paperMeta' = f.meta
       /\ calls' = <<f.call>>
       /\ UNCHANGED response

Summarize ==
  /\ pc = "idle"
  /\ Routed(request)
  /\ \E p \in PipelinePapers :
       /\ p # <<>>
       /\ paper' = p
       /\ Started(startFetch(normalizePaperInput(p).value))
  /\ UNCHANGED <<replies, arg, ret, request, app, fetches>>

AtomRejects ==
  /\ pc = "awaitAtom"
  /\ replies' = Append(replies, rejected("atom"))
  /\ MetaFetched(onAtomReject(paperMeta))
  /\ UNCHANGED <<paper, arg, ret, request, app, fetches>>

AtomNotOk ==
  /\ pc = "awaitAtom"
  /\ \E status \in ErrorStatuses :
       /\ replies' = Append(replies, replied("atom", status, <<>>))
       /\ MetaFetched(onAtomReply(paperMeta, status, <<>>))
  /\ UNCHANGED <<paper, arg, ret, request, app, fetches>>

AtomOk ==
  /\ pc = "awaitAtom"
  /\ \E status \in OkStatuses, xml \in AtomDocuments :
       /\ replies' = Append(replies, replied("atom", status, xml))
       /\ MetaFetched(onAtomReply(paperMeta, status, xml))
  /\ UNCHANGED <<paper, arg, ret, request, app, fetches>>

AbsPageRejects ==
  /\ pc = "awaitAbsPage"
  /\ replies' = Append(replies, rejected("abs"))
  /\ MetaFetched(onAbsPageReject(paperMeta))
  /\ UNCHANGED <<paper, arg, ret, request, app, fetches>>

AbsPageReplies ==
  /\ pc = "awaitAbsPage"
  /\ \E status \in OkStatuses \cup ErrorStatuses, html \in HtmlPages :
       /\ replies' = Append(replies, replied("abs", status, html))
       /\ MetaFetched(onAbsPageReply(paperMeta, status, html))
  /\ UNCHANGED <<paper, arg, ret, request, app, fetches>>

LlmRejects ==
  /\ pc = "awaitLLM"
  /\ replies' = Append(replies, rejected("llm"))
  /\ Resolved(onLlmReject(paperMeta))
  /\ UNCHANGED <<paper, arg, ret, request, app, fetches>>

LlmNotOk ==
  /\ pc = "awaitLLM"
  /\ \E status \in ErrorStatuses, txt \in ErrorTexts :
       /\ replies' = Append(replies, replied("llm", status, txt))
       /\ Resolved(onLlmReply(paperMeta, status, txt))
  /\ UNCHANGED <<paper, arg, ret, request, app, fetches>>

LlmOk ==
  /\ pc = "awaitLLM"
  /\ \E status \in OkStatuses, body \in LlmBodies :
       /\ replies' = Append(replies, replied("llm", status, body))
       /\ Resolved(onLlmReply(paperMeta, status, body))
  /\ UNCHANGED <<paper, arg, ret, request, app, fetches>>

Next ==
  \/ MissingPaper
  \/ Summarize
  \/ AtomRejects
  \/ AtomNotOk
  \/ AtomOk
  \/ AbsPageRejects
  \/ AbsPageReplies
  \/ LlmRejects
  \/ LlmNotOk
  \/ LlmOk

Spec == Init /\ [][Next]_vars

(***************************************************************************)
(* SpecHandler: the whole fetch handler, for every request                 *)
(***************************************************************************)
OriginA == <<"h","t","t","p","s",":","/","/","a",".","e","x","a","m","p","l","e">>
OriginB == <<"h","t","t","p","s",":","/","/","b",".","e","x","a","m","p","l","e">>
OriginE == <<"h","t","t","p","s",":","/","/","e",".","e","x","a","m","p","l","e">>

\* The Origin header ('' when absent) and the ALLOWED_ORIGINS setting ('' when
\* not set).
Origins == { <<>>, OriginA, OriginE }
AllowedOriginsSettings == { <<>>, OriginA \o <<","," ">> \o OriginB }

Requests ==
  [method : {"GET", "OPTIONS"}, path : {ApiSummarize, "/"},
   origin : Origins, env : AllowedOriginsSettings]

InitHandler ==
  /\ PipelineIdle
  /\ request \in Requests
  /\ AppUnused
  /\ arg = <<>>
  /\ ret = NotCalled

\* if (request.method === 'OPTIONS') return new Response(null, ...), on the
\* route and off it
Preflight ==
  /\ pc = "idle"
  /\ request.method = "OPTIONS"
  /\ pc' = "done"
  /\ response' = preflightResponse
  /\ UNCHANGED <<paper, paperMeta, calls, replies, arg, ret, request, app, fetches>>

\* if (!isAllowed) return 403
Forbidden ==
  /\ pc = "idle"
  /\ request.path = ApiSummarize
  /\ request.method # "OPTIONS"
  /\ ~isAllowed(request)
  /\ pc' = "done"
  /\ response' = forbiddenResponse
  /\ UNCHANGED <<paper, paperMeta, calls, replies, arg, ret, request, app, fetches>>

\* return new Response('OK', ...)
PlainOk ==
  /\ pc = "idle"
  /\ request.path # ApiSummarize
  /\ request.method # "OPTIONS"
  /\ pc' = "done"
  /\ response' = plainOkResponse
  /\ UNCHANGED <<paper, paperMeta, calls, replies, arg, ret, request, app, fetches>>

NextHandler ==
  \/ Preflight
  \/ Forbidden
  \/ PlainOk
  \/ Next

SpecHandler == InitHandler /\ [][NextHandler]_vars

(***************************************************************************)
(* SpecApp: the App component (src/src/App.jsx).  A step is what runs      *)
(* before control returns to the browser: an event handler together with   *)
(* the render and the effect it causes, up to the effect's first await.    *)
(***************************************************************************)
MaxFetches == 2

\* normalizeArxivUrl: null for the empty string; an arxiv.org URL with pdf
\* or abs before its last segment becomes a pdf URL; anything else stays.
normalizeArxivUrl(url) ==
  LET u == parseURL(url)
      parts == filterBoolean(split(u.pathname, "/"))
      id == parts[Len(parts)]
      rest == SubSeq(parts, 1, Len(parts) - 1)
  IN  IF url = <<>> THEN JsNull
      ELSE IF ~u.ok THEN JsStr(url)
      ELSE IF endsWith(u.hostname, ArxivOrg) /\ \E i \in DOMAIN rest : rest[i] = PdfSeg
      THEN JsStr(ArxivPdf \o id)
      ELSE IF endsWith(u.hostname, ArxivOrg) /\ \E i \in DOMAIN rest : rest[i] = AbsSeg
      THEN JsStr(ArxivPdf \o id \o DotPdf)
      ELSE JsStr(url)

\* The request of the effect: the paper parameter it sends, and the
\* activePaper of the render it belongs to.
backendCall(activePaper, paperUrl) == [paper |-> activePaper, url |-> paperUrl.v]

\* The effect up to await fetch(...), for the state a and the outstanding
\* requests f.
startRun(a, f, paperUrl) ==
  IF ~Truthy(paperUrl) THEN [app |-> a, fetches |-> f]
  ELSE [app |-> [a EXCEPT !.status = "loading", !.error = NoAppError,
                          !.summary = JsStr(<<>>)],
        fetches |-> Append(f, backendCall(a.activePaper, paperUrl))]
runEffect(a, f) == startRun(a, f, normalizeArxivUrl(a.activePaper))

\* <button type="submit" disabled={status === 'loading'}>: while it is
\* disabled the form cannot be submitted.
submitEnabledAlways(a) == TRUE
submitEnabled(a) == a.status # "loading"

\* submit(e): nothing for a blank input; setActivePaper(input.trim()) renders
\* again and runs the effect only when the value changes.
submitTrimmed(a, f, trimmed) ==
  IF trimmed = <<>> \/ trimmed = a.activePaper THEN [app |-> a, fetches |-> f]
  ELSE runEffect([a EXCEPT !.activePaper = trimmed], f)
submit(a, f) == submitTrimmed(a, f, trim(a.input))

\* What the backend may answer to a request: the fetch rejects, a status
\* that is not ok, a body that is not JSON, a JSON body with an error
\* field, or the summary for the paper of the request (two variants).
SummaryVariants == {1, 2}
summaryData(url, v) == [paper |-> url, variant |-> v]
BackendReplies(call) ==
  { [kind |-> "reject"], [kind |-> "notjson"] } \cup
  { [kind |-> "status", status |-> st] : st \in {400, 403, 500} } \cup
  { [kind |-> "json", data |-> [error |-> "upstream"]] } \cup
  { [kind |-> "json", data |-> summaryData(call.url, v)] : v \in SummaryVariants }

\* catch (e): setError(e.message || 'Failed to summarize'); setStatus('error')
failRun(a, text, st) == [a EXCEPT !.error = [text |-> text, status |-> st], !.status = "error"]

\* The rest of run() once the request call is answered with reply r.
onBackendReply(a, call, r) ==
  IF r.kind = "reject" THEN failRun(a, "Failed to fetch", 0)
  ELSE IF r.kind = "status" THEN failRun(a, "Backend error", r.status)
  ELSE IF r.kind = "notjson" THEN failRun(a, "Unexpected token in JSON", 0)
  ELSE IF "error" \in DOMAIN r.data THEN failRun(a, r.data.error, 0)
  ELSE [a EXCEPT !.summary = r.data, !.status = "done", !.urlParam = call.paper]

\* The texts typed into the form, and the paper parameter of the page.
AppInputs ==
  { <<>>, <<" ">>, Id2506, <<" ">> \o Id2506 \o <<" ">>,
    Https \o ArxivAbsPath \o Id2506, Https \o ArxivPdfPath \o Id2506 \o DotPdf }
InitialParams == { <<>>, Id2506 }

\* The component before it is mounted, with the paper parameter of the page.
AppCreated(initialParam) ==
  [mounted |-> FALSE, input |-> initialParam, activePaper |-> initialParam,
   status |-> "idle", summary |-> JsNull, error |-> NoAppError, urlParam |-> initialParam]

InitApp ==
  /\ PipelineIdle
  /\ request = DirectRequest
  /\ app \in { AppCreated(q) : q \in InitialParams }
  /\ fetches = <<>>
  /\ arg = <<>>
  /\ ret = NotCalled

otherVars == <<pc, paper, paperMeta, calls, replies, response, arg, ret, request>>

\* The first render and the effect after it.
AppMount ==
  /\ ~app.mounted
  /\ app' = runEffect([app EXCEPT !.mounted = TRUE], fetches).app
  /\ fetches' = runEffect([app EXCEPT !.mounted = TRUE], fetches).fetches
  /\ UNCHANGED otherVars

\* onChange: setInput(e.target.value)
Type ==
  /\ app.mounted
  /\ \E text \in AppInputs :
       /\ text # app.input
       /\ app' = [app EXCEPT !.input = text]
  /\ UNCHANGED <<fetches, otherVars>>

\* onSubmit
Submit ==
  /\ app.mounted
  /\ submitEnabled(app)
  /\ Len(fetches) < MaxFetches
  /\ app' = submit(app, fetches).app
  /\ fetches' = submit(app, fetches).fetches
  /\ UNCHANGED otherVars

\* A request is answered and run() goes on to its end.
BackendResponds ==
  /\ \E i \in DOMAIN fetches :
       /\ \E r \in BackendReplies(fetches[i]) : app' = onBackendReply(app, fetches[i], r)
       /\ fetches' = SubSeq(fetches, 1, i - 1) \o SubSeq(fetches, i + 1, Len(fetches))
  /\ UNCHANGED otherVars

NextApp ==
  \/ AppMount
  \/ Type
  \/ Submit
  \/ BackendResponds

SpecApp == InitApp /\ [][NextApp]_vars

(***************************************************************************)
(* SpecNormalize: normalizePaperInput applied to every paper reference     *)
(***************************************************************************)
InitNormalize ==
  /\ PipelineIdle
  /\ request = DirectRequest
  /\ AppUnused
  /\ arg \in PaperReferences
  /\ ret = NotCalled

CallNormalize ==
  /\ ret = NotCalled
  /\ ret' = normalizePaperInput(arg)
  /\ UNCHANGED <<arg, pipelineVars>>

NextNormalize == CallNormalize

SpecNormalize == InitNormalize /\ [][NextNormalize]_vars

(***************************************************************************)
(* SpecClassify: categorizeAffiliation applied to every affiliation        *)
(***************************************************************************)
MaxWords == 3

AffiliationWords ==
  { MIT, <<"G","o","o","g","l","e">>, <<"I","n","c">>,
    <<"S","p","r","i","n","g","f","i","e","l","d">>,
    <<"R","e","s","e","a","r","c","h","e","r","s">>,
    <<"C","o","l","l","e","c","t","i","v","e">>,
    <<"U","n","i","v","e","r","s","i","t","y">> }

RECURSIVE PhrasesUpTo(_)
PhrasesUpTo(n) ==
  IF n = 1 THEN AffiliationWords
  ELSE LET P == PhrasesUpTo(n - 1)
       IN  P \cup { p \o <<" ">> \o w : p \in P, w \in AffiliationWords }

Affiliations ==
  { JsNull, JsUndefined, JsStr(<<>>) } \cup { JsStr(p) : p \in PhrasesUpTo(MaxWords) }

InitClassify ==
  /\ PipelineIdle
  /\ request = DirectRequest
  /\ AppUnused
  /\ arg \in Affiliations
  /\ ret = NotCalled

CallClassify ==
  /\ ret = NotCalled
  /\ ret' = Return(categorizeAffiliation(arg))
  /\ UNCHANGED <<arg, pipelineVars>>

NextClassify == CallClassify

SpecClassify == InitClassify /\ [][NextClassify]_vars

(***************************************************************************)
(* SpecCollab: inferCollabType applied to every list of categorized        *)
(* authors                                                                 *)
(***************************************************************************)
MaxList == 4

Categories == {Academia, Industry, Other}

\* An entry of authorsDetailed with the given category.
categorized(c) == [name |-> JsStr(<<"A">>), affiliation |-> JsNull, category |-> JsStr(c)]

RECURSIVE CategorizedListsUpTo(_)
CategorizedListsUpTo(n) ==
  IF n = 0 THEN { <<>> }
  ELSE LET L == CategorizedListsUpTo(n - 1)
       IN  L \cup { Append(l, categorized(c)) : l \in L, c \in Categories }

InitCollab ==
  /\ PipelineIdle
  /\ request = DirectRequest
  /\ AppUnused
  /\ arg \in CategorizedListsUpTo(MaxList)
  /\ ret = NotCalled

CallCollab ==
  /\ ret = NotCalled
  /\ ret' = Return(inferCollabType(arg))
  /\ UNCHANGED <<arg, pipelineVars>>

NextCollab == CallCollab

SpecCollab == InitCollab /\ [][NextCollab]_vars

(***************************************************************************)
(* SpecScores: the try block applied to parsed objects with every          *)
(* combination of the three score fields                                   *)
(***************************************************************************)
MaxScore == 100

\* What a score field of the parsed object may hold: nothing (the field is
\* absent), null, a string, or a number.
ScoreValues ==
  { JsUndefined, JsNull, JsStr(<<"8","0">>) } \cup { JsNum(n) : n \in 0..MaxScore }
OverallValues == { JsUndefined, JsStr(<<"6","8">>), JsNum(0), JsNum(99) }

\* The object with the fields of f that are not undefined.
objectOf(f) == JsObj([k \in {j \in DOMAIN f : f[j] # JsUndefined} |-> f[k]])

ScoredDocuments ==
  { objectOf([reliability_score |-> r, applicability_score |-> a, overall_score |-> o]) :
      r \in ScoreValues, a \in ScoreValues, o \in OverallValues }

InitScores ==
  /\ PipelineIdle
  /\ request = DirectRequest
  /\ AppUnused
  /\ arg \in ScoredDocuments
  /\ ret = NotCalled

CallScores ==
  /\ ret = NotCalled
  /\ ret' = buildSummary(arg, paperMeta)
  /\ UNCHANGED <<arg, pipelineVars>>

NextScores == CallScores

SpecScores == InitScores /\ [][NextScores]_vars

(***************************************************************************)
(* Properties of the pipeline (checked under Spec)                         *)
(***************************************************************************)
HasReplied == Len(replies) > 0
LastReply == replies[Len(replies)]
Failed(r) == r.rejected \/ ~isOk(r.status)
RequestDone == pc = "done"

\* The handler answered the last reply, which came from the model endpoint
\* with res.ok.
AnsweredOkLlmReply ==
  /\ RequestDone
  /\ HasReplied
  /\ LastReply.kind = "llm"
  /\ ~LastReply.rejected
  /\ isOk(LastReply.status)

\* The reply carries a JSON body, and no document comes out of its text:
\* the text cannot be trimmed, what is extracted from it does not parse, or
\* reading the parsed value throws.
NoDocumentIn(body, meta) ==
  /\ body.json
  /\ \/ ~IsStr(extractText(body.data))
     \/ parseJSON(extractJsonStr(extractText(body.data).v)).kind = "throw"
     \/ buildSummary(parseJSON(extractJsonStr(extractText(body.data).v)).value,
                     meta).kind = "throw"

\* The summary s has the fixed sentence, the one note, the four empty lists,
\* and everything else from the metadata meta.
IsDegraded(s, meta) ==
  /\ s.one_liner = JsStr(FallbackOneLiner)
  /\ s.notes = JsArr(<<JsStr(FallbackNote)>>)
  /\ s.problems_solved = JsArr(<<>>)
  /\ s.key_innovations = JsArr(<<>>)
  /\ s.takeaways = JsArr(<<>>)
  /\ s.benchmarks = JsArr(<<>>)
  /\ s.title = Or(meta.title, JsUndefined)
  /\ s.arxiv_id = Or(meta.id, JsUndefined)
  /\ s.arxiv_abs_url = Or(meta.absUrl, JsUndefined)
  /\ s.arxiv_pdf_url = Or(meta.pdfUrl, JsUndefined)
  /\ s.authors = JsArr(meta.authors)
  /\ s.total_authors = JsNum(Len(meta.authors))
  /\ s.authors_affiliations = asObjects(meta.authorsDetailed)
  /\ s.resources = JsObj([code |-> JsArr(meta.codeLinks),
                          video |-> JsArr(meta.videoLinks),
                          checkpoints |-> JsArr(meta.modelLinks)])
  /\ s.simplified_summary = JsUndefined
  /\ s.reliability_score = JsUndefined
  /\ s.overall_score = JsUndefined

\* C1: when the model endpoint answers with res.ok and no JSON document
\* comes out of its text (empty text, text that does not parse, extraction
\* throwing), the resolver throws nothing and returns the degraded summary:
\* the fixed one_liner, exactly one note, problems_solved, key_innovations,
\* takeaways and benchmarks empty, the other fields from the metadata.
C1_DegradedOnBadText ==
  (AnsweredOkLlmReply /\ NoDocumentIn(LastReply.body, paperMeta)) =>
    /\ response.status = 200
    /\ IsDegraded(response.summary, paperMeta)

\* The Atom query was answered with a status that is not res.ok.
AtomReplyNotOk ==
  /\ HasReplied
  /\ replies[1].kind = "atom"
  /\ ~replies[1].rejected
  /\ ~isOk(replies[1].status)

\* C2: when an id was extracted and the Atom query comes back with a status
\* that is not a success, fetchArxivMeta throws: no metadata is returned (no
\* prompt is ever built from it) and the abstract page is never fetched.
C2_AtomErrorThrows ==
  AtomReplyNotOk =>
    /\ RequestDone
    /\ response = errorResponse(MkError("Error", "arXiv API error", replies[1].status, <<>>))
    /\ response.summary = NoSummary
    /\ calls = <<atomCall(paperMeta.id)>>
    /\ Len(replies) = 1

\* C2 happens: an id was extracted, the Atom query was answered 500.
C2_Witness ==
  /\ AtomReplyNotOk
  /\ replies[1].status = 500
  /\ Truthy(paperMeta.id)
  /\ response.status = 500

\* The model endpoint answered with a status that is not res.ok.
LlmReplyNotOk ==
  /\ HasReplied
  /\ LastReply.kind = "llm"
  /\ ~LastReply.rejected
  /\ ~isOk(LastReply.status)

\* C3: when the model endpoint answers with a status that is not a success,
\* summarizeWithGemini throws an error that carries the status and the text
\* of the response body, and no summary, full or degraded, is returned.
C3_LlmErrorCarriesStatusAndBody ==
  LlmReplyNotOk =>
    /\ RequestDone
    /\ response.status = 500
    /\ response.error.text = "Gemini error"
    /\ response.error.status = LastReply.status
    /\ response.error.body = LastReply.body
    /\ response.summary = NoSummary

\* C3 happens: the endpoint answered 500 with a body that is not empty.
C3_Witness ==
  /\ LlmReplyNotOk
  /\ LastReply.status = 500
  /\ LastReply.body # <<>>
  /\ RequestDone

\* fetchArxivMeta took the fallback path and the fetch of the abstract page
\* is over.
AbsPageOver ==
  /\ HasReplied
  /\ replies[1].kind = "abs"

\* References that do not parse as a URL.
UnparsableReferences == { r \in OtherReferences : ~parseURL(r).ok }

\* C4: on the fallback path of fetchArxivMeta (no id extracted) a failure is
\* absorbed.  A URL that does not parse ends the function with the empty
\* record; a rejected fetch of the abstract page leaves what was collected
\* before it; a page whose markup matches nothing leaves title and abstract
\* null and the lists empty.  In each case the metadata is returned and the
\* prompt is built from it: no error of the fallback path reaches the caller.
C4_FallbackAbsorbs ==
  /\ \A r \in UnparsableReferences :
       startFetch(r) = [step |-> "return", meta |-> initialMeta(JsNull), call |-> NoPrompt]
  /\ AbsPageOver =>
       /\ paperMeta.id = JsNull
       /\ Len(calls) = 2
       /\ calls[2] = llmCall(paperMeta)
       /\ Len(replies) = 1 => pc = "awaitLLM" /\ response = NoResponse
       /\ replies[1].rejected =>
            paperMeta = [initialMeta(JsNull) EXCEPT !.absUrl = JsStr(calls[1].url),
                                                    !.pdfUrl = paperMeta.pdfUrl]
       /\ (~replies[1].rejected /\ replies[1].body.title = JsUndefined) =>
            paperMeta.title = JsNull
       /\ (~replies[1].rejected /\ replies[1].body.abstract = JsUndefined) =>
            paperMeta.abstract = JsNull
       /\ (~replies[1].rejected /\ replies[1].body.anchors = <<>>) =>
            paperMeta.authors = <<>> /\ paperMeta.authorsDetailed = <<>>

\* C4 happens: the fetch of the abstract page was rejected and the request
\* still ended with a summary.
C4_Witness ==
  /\ AbsPageOver
  /\ replies[1].rejected
  /\ RequestDone
  /\ response.status = 200

\* The calls of one request: at most two, a metadata call first when there
\* is one, the model call last, none twice.
OneChain ==
  /\ Len(calls) <= 2
  /\ Len(replies) <= Len(calls)
  /\ \A i \in DOMAIN replies : replies[i].kind = calls[i].kind
  /\ \A i \in DOMAIN calls :
       /\ calls[i].kind \in {"atom", "abs"} => i = 1
       /\ calls[i].kind = "llm" => i = Len(calls)
  /\ \A i, j \in DOMAIN calls : calls[i].kind = calls[j].kind => i = j

\* The model call is posted once fetchArxivMeta has returned: the metadata
\* call before it, if any, has been answered.
LlmAfterMeta ==
  (Len(calls) = 2) => (Len(replies) >= 1 /\ calls[2] = llmCall(paperMeta))

\* Reply i failed and the request ended with an error right there.
EndsWithError(i) ==
  /\ i = Len(replies)
  /\ Len(calls) = Len(replies)
  /\ RequestDone
  /\ response.status = 500
  /\ response.summary = NoSummary

\* C5 as stated: at most two outbound calls per request, the metadata fetch
\* then the model call; the model call only after the metadata fetch
\* completed without error; no call repeated; a failed call ends the
\* request with an error.
C5_FailedCallEndsRequest ==
  /\ OneChain
  /\ LlmAfterMeta
  /\ (Len(calls) = 2) => ~Failed(replies[1])
  /\ \A i \in DOMAIN replies : Failed(replies[i]) => EndsWithError(i)

\* C5, amended: at most two outbound calls per request, the metadata fetch
\* then the model call; the model call only after fetchArxivMeta returned;
\* no call repeated; a failed Atom query or model call ends the request with
\* an error, and a failed fetch of the abstract page is absorbed: the model
\* call is still made.
C5_FailedAtomOrLlmEndsRequest ==
  /\ OneChain
  /\ LlmAfterMeta
  /\ \A i \in DOMAIN replies :
       /\ (Failed(replies[i]) /\ replies[i].kind \in {"atom", "llm"}) => EndsWithError(i)
       /\ (Failed(replies[i]) /\ replies[i].kind = "abs") =>
            (Len(calls) = 2 /\ calls[2].kind = "llm")

\* C5 happens: a request made both calls, the fetch of the abstract page
\* failed, the model call failed, and the request ended with the error.
C5_Witness ==
  /\ Len(replies) = 2
  /\ replies[1].kind = "abs"
  /\ Failed(replies[1])
  /\ Failed(replies[2])
  /\ RequestDone
  /\ response.status = 500

(***************************************************************************)
(* Properties of normalizePaperInput (checked under SpecNormalize)         *)
(***************************************************************************)
NormalizeCalled == ret # NotCalled

IsAlnum(c) == IsAlpha(c) \/ IsDigit(c)
NoWhitespace(s) == \A i \in DOMAIN s : ~IsWs(s[i])

\* s is an http(s) URL on host arxiv.org whose path starts with /<first>/ and
\* goes on with an identifier.
IsArxivUrlUnder(s, first) ==
  \E sch \in {Https, Http} :
    LET p == sch \o ArxivOrg \o <<"/">> \o first \o <<"/">>
    IN  /\ NoWhitespace(s)
        /\ Len(s) > Len(p)
        /\ startsWith(s, p)
        /\ IsAlnum(s[Len(p) + 1])

\* C6 (as claimed): for every non-empty paper reference the value returned by
\* normalizePaperInput is https://arxiv.org/abs/<id> or an archive-proxy URL
\* https://web.archive.org/web/2/<original-url>.
C6_CanonicalShape ==
  (NormalizeCalled /\ arg # <<>>) =>
    /\ ret.kind = "return"
    /\ \/ startsWith(ret.value, ArxivAbs)
       \/ ret.value = WebArchive \o trim(arg)

\* C7: for every arXiv URL of the form /abs/<id>, normalizePaperInput returns
\* the input URL unchanged.
C7_AbsUnchanged ==
  (NormalizeCalled /\ IsArxivUrlUnder(arg, AbsSeg)) => ret = Return(arg)

\* C7 witness: an http:// abs URL, which is not already in canonical https
\* form, has been normalized.
C7_Witness ==
  /\ NormalizeCalled
  /\ IsArxivUrlUnder(arg, AbsSeg)
  /\ startsWith(arg, Http)
  /\ ret = Return(arg)

\* The arXiv identifiers the pdf URLs are built from: new style, versioned,
\* and old style (archive/number).
ArxivIds == { Id2506, Id2506v2, OldStyleId }

\* C8 (as claimed): for every arXiv URL /pdf/<id>.pdf, or /pdf/<id> without the
\* suffix, normalizePaperInput returns https://arxiv.org/abs/<id> with the
\* whole identifier preserved.
C8_PdfToAbs ==
  \A sch \in {Https, Http}, id \in ArxivIds, suffix \in {<<>>, DotPdf} :
    (NormalizeCalled /\ arg = sch \o ArxivPdfPath \o id \o suffix)
      => ret = Return(ArxivAbs \o id)

\* C9 (as claimed): for every string s that does not parse as a URL,
\* normalizePaperInput does not raise and returns exactly
\* https://arxiv.org/abs/<s>.
C9_BareIdExact ==
  (NormalizeCalled /\ ~parseURL(arg).ok) => ret = Return(ArxivAbs \o arg)

\* C9 (amended): for every string s that does not parse as a URL,
\* normalizePaperInput does not raise and returns https://arxiv.org/abs/<t>,
\* where t is s with its leading and trailing whitespace removed.
C9_BareIdTrimmed ==
  (NormalizeCalled /\ ~parseURL(arg).ok) => ret = Return(ArxivAbs \o trim(arg))

\* C9 witness: a bare identifier with surrounding spaces has been normalized.
C9_Witness ==
  /\ NormalizeCalled
  /\ ~parseURL(arg).ok
  /\ arg = <<" ">> \o Id2506 \o <<" ">>
  /\ ret = Return(ArxivAbs \o Id2506)

(***************************************************************************)
(* Properties of categorizeAffiliation (checked under SpecClassify)        *)
(***************************************************************************)
ClassifyCalled == ret # NotCalled

\* C10 (as claimed): categorizeAffiliation returns Other for null, Academia for
\* "MIT", Industry for "Google Inc" and Other for "Springfield Researchers
\* Collective".
C10_SpecExamples ==
  ClassifyCalled =>
    /\ (arg = JsNull => ret = Return(Other))
    /\ (arg = JsStr(MIT) => ret = Return(Academia))
    /\ (arg = JsStr(GoogleInc) => ret = Return(Industry))
    /\ (arg = JsStr(SpringfieldResearchersCollective) => ret = Return(Other))

\* C10 (amended): categorizeAffiliation returns Other for null, Other for "MIT"
\* (it contains no Academia and no Industry keyword), Industry for "Google Inc"
\* and Other for "Springfield Researchers Collective".
C10_CodeExamples ==
  ClassifyCalled =>
    /\ (arg = JsNull => ret = Return(Other))
    /\ (arg = JsStr(MIT) => ret = Return(Other))
    /\ (arg = JsStr(GoogleInc) => ret = Return(Industry))
    /\ (arg = JsStr(SpringfieldResearchersCollective) => ret = Return(Other))

\* C10 witness: "MIT" has been classified, as Other.
C10_Witness ==
  /\ ClassifyCalled
  /\ arg = JsStr(MIT)
  /\ ret = Return(Other)

(***************************************************************************)
(* Properties of inferCollabType (checked under SpecCollab)                *)
(***************************************************************************)
CollabCalled == ret # NotCalled
Has(list, c) == \E i \in DOMAIN list : list[i].category = JsStr(c)

\* C11: inferCollabType returns Unknown for the empty list; otherwise
\* Academia-Industry when the list has an Academia and an Industry entry,
\* Academia-only when it has Academia and no Industry, Industry-only when it
\* has Industry and no Academia, Unknown when every entry is Other.
C11_CollabType ==
  CollabCalled =>
    /\ (arg = <<>> => ret = Return(Unknown))
    /\ (Has(arg, Academia) /\ Has(arg, Industry) => ret = Return(AcademiaIndustry))
    /\ (Has(arg, Academia) /\ ~Has(arg, Industry) => ret = Return(AcademiaOnly))
    /\ (Has(arg, Industry) /\ ~Has(arg, Academia) => ret = Return(IndustryOnly))
    /\ ((arg # <<>> /\ \A i \in DOMAIN arg : arg[i].category = JsStr(Other)) =>
          ret = Return(Unknown))

\* C11 witness: a list starting with Other and holding both an Industry and
\* an Academia entry was classified Academia-Industry.
C11_Witness ==
  /\ CollabCalled
  /\ Len(arg) = 3
  /\ arg[1].category = JsStr(Other)
  /\ arg[2].category = JsStr(Industry)
  /\ arg[3].category = JsStr(Academia)
  /\ ret = Return(AcademiaIndustry)

(***************************************************************************)
(* Properties of the scores (checked under SpecScores)                     *)
(***************************************************************************)
ScoresCalled == ret # NotCalled

\* n is x / 10 rounded to the nearest integer, a tie going up.
IsRounded(n, x) == 10 * n - 5 <= x /\ x < 10 * n + 5

\* C12: with numeric reliability_score r and applicability_score a and no
\* numeric overall_score, the summary's overall_score is round(0.6 r + 0.4 a)
\* (80 and 50 give 68); a numeric overall_score of the model is returned
\* unchanged; with no overall_score and a component missing, overall_score
\* is absent.
C12_OverallScore ==
  ScoresCalled =>
    LET r == GetProp(arg, "reliability_score")
        a == GetProp(arg, "applicability_score")
        o == GetProp(arg, "overall_score")
        s == ret.value.overall_score
    IN  /\ ret.kind = "return"
        /\ IsNum(o) => s = o
        /\ (~IsNum(o) /\ IsNum(r) /\ IsNum(a)) =>
             (IsNum(s) /\ IsRounded(s.num, 6 * r.num + 4 * a.num))
        /\ (~IsNum(o) /\ r = JsNum(80) /\ a = JsNum(50)) => s = JsNum(68)
        /\ (~IsNum(o) /\ ~(IsNum(r) /\ IsNum(a))) => s = JsUndefined

\* C12 witness: reliability 80, applicability 50 and no overall_score gave 68.
C12_Witness ==
  /\ ScoresCalled
  /\ arg = objectOf([reliability_score |-> JsNum(80), applicability_score |-> JsNum(50)])
  /\ ret.value.overall_score = JsNum(68)

(***************************************************************************)
(* Properties of the resolver's output (checked under Spec)                *)
(***************************************************************************)
\* The text of the model reply the handler answered (empty when the reply
\* has none).
AnsweredText ==
  IF AnsweredOkLlmReply /\ LastReply.body.json /\ IsStr(extractText(LastReply.body.data))
  THEN extractText(LastReply.body.data).v
  ELSE <<>>

\* The documents from which the try block builds a summary.
SummaryDocuments == {"{minimal}", "{scores}", "{full}"}

\* The document d in a fenced block with the given tag.
Fenced(tag, d) == Fence \o tag \o NL \o Doc(d) \o NL \o Fence

TagJson == <<"j","s","o","n">>
TagJSON == <<"J","S","O","N">>
TagJs == <<"j","s">>

\* The handler answered with the summary built from document d.
BuiltFrom(d) ==
  /\ response.status = 200
  /\ response.summary = buildSummary(JsonDocument(d), paperMeta).value
  /\ response.summary.one_liner = GetProp(JsonDocument(d), "one_liner")
  /\ response.summary.notes # JsArr(<<JsStr(FallbackNote)>>)

\* C13 as stated: a valid JSON document in a fenced block, with no tag or
\* with any tag, is taken out of the fence and parsed, and the summary is
\* built from it, not the degraded one.
C13_AnyFenceStripped ==
  \A d \in SummaryDocuments, tag \in {<<>>, TagJson, TagJSON, TagJs} :
    AnsweredText = Fenced(tag, d) => BuiltFrom(d)

\* C13, amended: a valid JSON document in a fenced block with no tag or with
\* the tag json (in any letter case) is taken out of the fence and parsed,
\* and the summary is built from it; with another tag the tag stays in
\* front of the document and the degraded summary is returned.
C13_JsonFenceStripped ==
  /\ \A d \in SummaryDocuments, tag \in {<<>>, TagJson, TagJSON} :
       AnsweredText = Fenced(tag, d) => BuiltFrom(d)
  /\ \A d \in SummaryDocuments :
       AnsweredText = Fenced(TagJs, d) =>
         (response.status = 200 /\ IsDegraded(response.summary, paperMeta))

\* C13 witness: a document in a fence without a tag was answered with the
\* summary built from it.
C13_Witness ==
  /\ AnsweredText = Fenced(<<>>, "{minimal}")
  /\ BuiltFrom("{minimal}")

\* The handler answered with a summary.
SummaryReturned == RequestDone /\ response.status = 200

\* C14: every summary summarizeWithGemini returns, built from any parsed
\* JSON value or degraded, has one_liner, problems_solved, key_innovations,
\* collaboration_type, total_authors and takeaways defined, the three lists
\* being arrays and total_authors a number.
C14_RequiredFields ==
  SummaryReturned =>
    /\ response.summary.one_liner # JsUndefined
    /\ IsArr(response.summary.problems_solved)
    /\ IsArr(response.summary.key_innovations)
    /\ IsArr(response.summary.takeaways)
    /\ response.summary.collaboration_type # JsUndefined
    /\ IsNum(response.summary.total_authors)

\* C15: in every summary the API returns, collaboration_type is one of
\* Academia-only, Industry-only, Academia-Industry and Unknown, whatever the
\* model's JSON holds in that field.
C15_CollabTypeValues ==
  SummaryReturned =>
    response.summary.collaboration_type \in
      { JsStr(AcademiaOnly), JsStr(IndustryOnly), JsStr(AcademiaIndustry), JsStr(Unknown) }

(***************************************************************************)
(* Properties of the metadata (checked under Spec)                         *)
(***************************************************************************)
\* fetchArxivMeta returned: the prompt was built from paperMeta.
MetaReturned == \E i \in DOMAIN calls : calls[i].kind = "llm"

\* The names the source holds, cleaned, in the order of the source, the
\* empty ones left out.
NonEmptyName(n) == Truthy(n)
AtomNames(xml) ==
  SelectSeq([i \in DOMAIN xml.authors |-> cleanMatch(xml.authors[i].name)], NonEmptyName)
PageNames(html) ==
  SelectSeq([i \in DOMAIN html.anchors |-> JsStr(cleanHtml(html.anchors[i]))], NonEmptyName)

\* C16: every record fetchArxivMeta returns has authors and authorsDetailed
\* of the same length, authorsDetailed[i].name being authors[i], in the order
\* of the source; on the fallback path every entry has category Other.
C16_AuthorsParallel ==
  MetaReturned =>
    /\ Len(paperMeta.authorsDetailed) = Len(paperMeta.authors)
    /\ \A i \in DOMAIN paperMeta.authors :
         paperMeta.authorsDetailed[i].name = paperMeta.authors[i]
    /\ (HasReplied /\ replies[1].kind = "atom") =>
         paperMeta.authors = AtomNames(replies[1].body)
    /\ (HasReplied /\ replies[1].kind = "abs" /\ ~replies[1].rejected) =>
         /\ paperMeta.authors = PageNames(replies[1].body)
         /\ \A i \in DOMAIN paperMeta.authorsDetailed :
              paperMeta.authorsDetailed[i].category = JsStr(Other)

\* C16 witness: the abstract page had three author anchors, one of them
\* blank, and the record holds the two others in both lists.
C16_Witness ==
  /\ MetaReturned
  /\ HasReplied
  /\ replies[1].kind = "abs"
  /\ ~replies[1].rejected
  /\ Len(replies[1].body.anchors) = 3
  /\ Len(paperMeta.authors) = 2
  /\ Len(paperMeta.authorsDetailed) = 2

(***************************************************************************)
(* The end-to-end example (checked under Spec)                             *)
(***************************************************************************)
\* The request of the example: the paper is 2506.01667, the Atom document
\* holds the one author with an academic affiliation, and the model answered
\* with the minimal document.
ExampleRequest ==
  /\ paper = Id2506
  /\ RequestDone
  /\ Len(replies) = 2
  /\ replies[1].kind = "atom"
  /\ Len(replies[1].body.authors) = 1
  /\ replies[1].body.authors[1].name = JsStr(StrBob)
  /\ AnsweredText = Doc("{minimal}")

\* C17: for the input 2506.01667 the normalizer yields
\* https://arxiv.org/abs/2506.01667; the metadata has id 2506.01667 and one
\* author categorized Academia; with the minimal JSON of the model the
\* summary has arxiv_id 2506.01667, total_authors 1 and collaboration_type
\* Academia-only.
C17_EndToEnd ==
  ExampleRequest =>
    /\ normalizePaperInput(paper) = Return(ArxivAbs \o Id2506)
    /\ paperMeta.id = JsStr(Id2506)
    /\ Len(paperMeta.authors) = 1
    /\ Len(paperMeta.authorsDetailed) = 1
    /\ paperMeta.authorsDetailed[1].category = JsStr(Academia)
    /\ response.status = 200
    /\ response.summary.arxiv_id = JsStr(Id2506)
    /\ response.summary.total_authors = JsNum(1)
    /\ response.summary.collaboration_type = JsStr(AcademiaOnly)

(***************************************************************************)
(* Properties of the handler (checked under SpecHandler)                   *)
(***************************************************************************)
\* ALLOWED_ORIGINS lists origins and the Origin header is absent or not
\* among them.
OriginRefused ==
  /\ Len(allowedOrigins(request.env)) > 0
  /\ \/ request.origin = <<>>
     \/ \A i \in DOMAIN allowedOrigins(request.env) :
          allowedOrigins(request.env)[i] # request.origin

SummarizeRequest == request.path = ApiSummarize /\ request.method # "OPTIONS"

\* C18: for a request to /api/summarize that is not OPTIONS, a refused
\* origin is answered 403 with no outbound call, before the paper parameter
\* is looked at; an allowed request without a paper parameter is answered
\* 400 with no outbound call; an error raised in the pipeline is answered
\* 500 with its message; the pipeline is started at most once.
C18_HandlerGuards ==
  SummarizeRequest =>
    /\ OriginRefused =>
         /\ calls = <<>> /\ replies = <<>> /\ paper = <<>>
         /\ RequestDone => response = forbiddenResponse
    /\ (~OriginRefused /\ RequestDone /\ paper = <<>>) =>
         (response = missingPaperResponse /\ calls = <<>>)
    /\ (RequestDone /\ HasReplied /\ Failed(LastReply) /\ LastReply.kind \in {"atom", "llm"}) =>
         /\ response.status = 500
         /\ response.error.text \in {"fetch failed", "arXiv API error", "Gemini error"}
         /\ ~LastReply.rejected => response.error.status = LastReply.status
    /\ (RequestDone /\ response.status = 500) => response.error.text # ""
    /\ OneChain

\* C18 witness: a request with an origin outside the list was answered 403.
C18_Witness ==
  /\ SummarizeRequest
  /\ request.origin = OriginE
  /\ OriginRefused
  /\ RequestDone
  /\ response.status = 403

(***************************************************************************)
(* Properties of the App component (checked under SpecApp)                 *)
(***************************************************************************)
\* The summary is the data answered to the request made for activePaper.
ShowsCurrentPaper ==
  \E v \in SummaryVariants :
    app.summary = summaryData(normalizeArxivUrl(app.activePaper).v, v)

\* No request is outstanding other than the one of the current activePaper,
\* so that no answer can come for a paper that was replaced.
NoSupersededRequest ==
  /\ Len(fetches) <= 1
  /\ fetches # <<>> => (fetches[1].paper = app.activePaper /\ app.status = "loading")

AppStateOk ==
  /\ app.status = "done" => (ShowsCurrentPaper /\ app.error = NoAppError)
  /\ app.status = "error" => app.error.text # ""
  /\ trim(app.input) = <<>> => submit(app, fetches) = [app |-> app, fetches |-> fetches]
  /\ NoSupersededRequest

\* A step that starts a request leaves status loading, summary '' and error ''.
StartClears ==
  Len(fetches') > Len(fetches) =>
    /\ app'.status = "loading"
    /\ app'.summary = JsStr(<<>>)
    /\ app'.error = NoAppError
    /\ fetches'[Len(fetches')].paper = app'.activePaper

\* C19: in the App component status is done only when summary is the data
\* answered to the request for the current activePaper and error is empty;
\* status is error only with a non-empty error; a started request sets
\* status loading and clears summary and error; a submit of a blank input
\* changes nothing; the answer to a replaced request never takes the place
\* of the summary of the current activePaper.
C19_AppStates == [](AppStateOk) /\ [][StartClears]_vars

\* C19 witness: after a first summary was shown another paper was
\* submitted, and its own summary is shown.
C19_Witness ==
  /\ app.status = "done"
  /\ app.activePaper = Https \o ArxivAbsPath \o Id2506
  /\ app.urlParam = app.activePaper
  /\ ShowsCurrentPaper
  /\ app.input = <<" ">>

====
